---- MODULE Spec2Model ----
(***************************************************************************)
(* Task-lifecycle orchestrator of the Personal AI Employee vault:          *)
(* plan-generation producers, the human approval gate, the ActionRunner    *)
(* executor and the AccountingOdooSkill transport fallback.                *)
(***************************************************************************)
EXTENDS Integers, Sequences, FiniteSets, TLC

VARIABLES
    clock,      \* datetime.now() truncated to the second, as used in file names
    vault,      \* directory name -> set of files [name, content]
    events,     \* 'created' events of Needs_Action not yet delivered to the callback
    pc,         \* position of each plan-generation producer
    todo,       \* task files each producer has listed and not yet handled
    cur,        \* task file a producer is working on
    queue,      \* paths the ActionRunner listed in run_once and has not yet handled
    dispatched, \* names dispatched to a collaborator since they were last put in Approved
    redispatched, \* names dispatched again without being put in Approved again
    planWrites, \* stem -> producers that wrote a plan for the task file now in Needs_Action
    lastProc,   \* outcome of the last process_approved_file call
    fellBack,   \* an Odoo action of this ActionRunner has fallen back to the direct channel
    skill,      \* fields of one AccountingOdooSkill instance
    mcpMode,    \* behaviour of the MCP channel in this run
    lastCall,   \* channel events and result of the last skill operation
    auditLog,   \* AccountingOdooSkill._audit_log
    wait,       \* position, clock reading and result of one wait_for_approval call
    approvalFile, \* state of the approval request file that call polls
    stab,       \* position, observations and result of one wait_for_file_stability call
    inbox,      \* the file that call watches: whether it exists, and its size
    reloc,      \* files issued to the relocation functions, and their last call
    shut,       \* the running flags, the loops of the application and its main thread
    watch,      \* the event handler of the directory watcher and its callback calls
    norm,       \* the Tool Arguments of one Odoo action, as parsed and as normalized
    parse,      \* one action file of free text, as parsed and as dispatched
    social      \* one SocialMediaSkill: the files it wrote, the file it is given, its tool calls

vars == <<clock, vault, events, pc, todo, cur, queue, dispatched, redispatched,
          planWrites, lastProc, fellBack, skill, mcpMode, lastCall, auditLog,
          wait, approvalFile, stab, inbox, reloc, shut, watch, norm, parse, social>>

vaultVars == <<clock, vault, events, pc, todo, cur, queue, dispatched,
               redispatched, planWrites, lastProc, fellBack>>

odooVars == <<skill, mcpMode, lastCall, auditLog>>

pollVars == <<wait, approvalFile, stab, inbox>>

(***************************************************************************)
(* Bounds of the model.                                                    *)
(***************************************************************************)
MaxClock == 1

MaxAudit == 2

MaxTimeout == 12

MaxSize == 2

MaxRecords == 1600

(***************************************************************************)
(* File contents.  A content is a sequence of lines; a line is a           *)
(* "key: value" field line, a plain text line (k = "") or a blank line.    *)
(***************************************************************************)
F(key, value) == [k |-> key, v |-> value]

T(text) == [k |-> "", v |-> text]

Blank == [k |-> "", v |-> ""]

IsBlank(line) == line.k = "" /\ line.v = ""

IsField(line) == line.k # ""

IsText(line) == line.k = "" /\ line.v # ""

\* Values that themselves contain ": " (a plain YAML scalar may not).
ColonValues == {"Re: Hi"}

\* Plain scalars that YAML loads as a falsy Python value.
FalsyScalars == {"null", "0", "false", "[]"}

\* Literal mappings that may follow "Tool Arguments:".
ArgsOk == "{'customer': 'Acme', 'amount': 5, 'description': 'd'}"

ArgsMissing == "{'customer': 'Acme'}"

ArgsMalformed == "{'customer': 'Acme',"

Corpus(id) ==
    CASE id = "email" ->
            <<F("type", "email_send"), F("to", "a@example.com"),
              F("subject", "Hi"), Blank, T("Hello")>>
      [] id = "reply" ->
            <<F("type", "email_send"), F("to", "a@example.com"),
              F("subject", "Re: Hi"), Blank, T("Dear,"), Blank, T("Regards")>>
      [] id = "bogus" -> <<F("type", "bogus_type")>>
      [] id = "text" -> <<T("Hello")>>
      [] id = "null" -> <<T("null")>>
      [] id = "linkedin" -> <<F("type", "linkedin_post"), F("content", "Post")>>
      [] id = "odoo" ->
            <<F("type", "approval_request"), F("tool", "AccountingOdooSkill"),
              F("action", "create_invoice"), F("Tool Arguments", ""), T(ArgsOk)>>
      [] id = "mail" -> <<T("# Hi"), T("**From:** a@example.com"), T("---"), T("Hello")>>
      [] id = "post" -> <<T("# LinkedIn post"), T("---"), T("Topic")>>
      [] id \in {"draft_facebook", "draft_twitter"} ->
            <<T("---"), F("type", "social_media_post"),
              F("status", "Pending_Approval"),
              F("platform", IF id = "draft_facebook" THEN "facebook" ELSE "twitter"),
              F("mcp_tool", IF id = "draft_facebook" THEN "post_to_facebook"
                            ELSE "post_to_twitter"),
              T("---"), Blank, T("# Social Media Post Approval Request"), Blank,
              T("## Content to Post"), T("Hello")>>
      [] OTHER -> <<>>

\* str.lower() on the strings of the model.
Lower(s) ==
    CASE s = "Email_Send" -> "email_send"
      [] s = "Type" -> "type"
      [] s = "To" -> "to"
      [] s = "Subject" -> "subject"
      [] s = "Body" -> "body"
      [] OTHER -> s

(***************************************************************************)
(* Python dictionaries: functions whose domain is the set of keys.         *)
(***************************************************************************)
EmptyDict == [x \in {} |-> ""]

Put(d, key, value) ==
    [x \in DOMAIN d \cup {key} |-> IF x = key THEN value ELSE d[x]]

Get(d, key, default) == IF key \in DOMAIN d THEN d[key] ELSE default

Pop(d, key) == [x \in DOMAIN d \ {key} |-> d[x]]

\* The elements of a list.
Range(seq) == {seq[i] : i \in 1..Len(seq)}

(***************************************************************************)
(* yaml.safe_load on the action-file contents of the model: nothing or     *)
(* blank lines load as None, plain text as a string, "key: value" lines as *)
(* a mapping; a mapping followed by plain text, or a plain value holding   *)
(* ": ", is a YAMLError.                                                   *)
(***************************************************************************)
NonBlank(lines) == SelectSeq(lines, LAMBDA l : ~IsBlank(l))

\* A body is kept as its sequence of lines; '' is the empty sequence.
BodyOf(value) == IF value = "" THEN <<>> ELSE <<T(value)>>

YamlValue(key, value) == IF key = "body" THEN BodyOf(value) ELSE value

RECURSIVE YamlMap(_, _, _)
YamlMap(lines, i, acc) ==
    IF i > Len(lines) THEN acc
    ELSE IF IsField(lines[i]) /\ lines[i].v = "" /\ i < Len(lines) /\ IsText(lines[i + 1])
         THEN YamlMap(lines, i + 2, Put(acc, lines[i].k, lines[i + 1].v))
         ELSE YamlMap(lines, i + 1, Put(acc, lines[i].k, YamlValue(lines[i].k, lines[i].v)))

\* A key with no value may be followed by one flow literal on the next line.
RECURSIVE YamlMapShape(_, _)
YamlMapShape(lines, i) ==
    IF i > Len(lines) THEN TRUE
    ELSE IF ~IsField(lines[i]) \/ lines[i].v \in ColonValues THEN FALSE
    ELSE IF lines[i].v = "" /\ i < Len(lines) /\ IsText(lines[i + 1])
         THEN lines[i + 1].v \in {ArgsOk, ArgsMissing} /\ YamlMapShape(lines, i + 2)
         ELSE YamlMapShape(lines, i + 1)

YamlLoad(content) ==
    LET nb == NonBlank(content) IN
    IF nb = <<>> THEN [kind |-> "none", map |-> EmptyDict]
    ELSE IF \A i \in 1..Len(nb) : IsText(nb[i])
    THEN IF Len(nb) = 1 /\ nb[1].v \in FalsyScalars
         THEN [kind |-> "falsy", map |-> EmptyDict]
         ELSE IF \E i \in 1..Len(nb) : nb[i].v = ArgsMalformed
              THEN [kind |-> "error", map |-> EmptyDict]
              ELSE [kind |-> "scalar", map |-> EmptyDict]
    ELSE IF YamlMapShape(nb, 1)
    THEN [kind |-> "map", map |-> YamlMap(nb, 1, EmptyDict)]
    ELSE [kind |-> "error", map |-> EmptyDict]

(***************************************************************************)
(* ActionRunner.parse_action_file                                          *)
(***************************************************************************)
RECURSIVE StripHead(_)
StripHead(lines) ==
    IF lines # <<>> /\ IsBlank(Head(lines)) THEN StripHead(Tail(lines)) ELSE lines

RECURSIVE StripTail(_)
StripTail(lines) ==
    IF lines # <<>> /\ IsBlank(lines[Len(lines)])
    THEN StripTail(SubSeq(lines, 1, Len(lines) - 1))
    ELSE lines

\* str.strip() seen on whole lines.
StripLines(lines) == StripTail(StripHead(lines))

\* content.strip().split('\n'): never an empty list.
SplitLines(content) ==
    LET s == StripLines(content) IN IF s = <<>> THEN <<Blank>> ELSE s

FirstBlank(lines) ==
    IF \E i \in 1..Len(lines) : IsBlank(lines[i])
    THEN CHOOSE i \in 1..Len(lines) :
            IsBlank(lines[i]) /\ \A j \in 1..(i - 1) : ~IsBlank(lines[j])
    ELSE 0

\* One header line applied to action_data (lines 222-237 and 258-268).
SetField(acc, line) ==
    IF ~IsField(line) THEN acc
    ELSE LET key == Lower(line.k) IN
         CASE key = "type" -> Put(acc, "type", Lower(line.v))
           [] key = "to" -> Put(acc, "to", line.v)
           [] key = "subject" -> Put(acc, "subject", line.v)
           [] OTHER -> acc

RECURSIVE ParseHeaders(_, _, _)
ParseHeaders(lines, i, acc) ==
    IF i > Len(lines) THEN acc
    ELSE IF IsField(lines[i]) /\ Lower(lines[i].k) = "body"
         THEN ParseHeaders(lines, i + 1, Put(acc, "body", BodyOf(lines[i].v)))
         ELSE ParseHeaders(lines, i + 1, SetField(acc, lines[i]))

BodyFields == {"type", "to", "subject", "body", "from", "cc", "bcc"}

\* A test that took every "key: value" line for the start of a field.
StartsWithAnyField(line) == IsField(line)

\* next_line.lower().startswith(field + ':') for one of the field names.
StartsWithField(line) == IsField(line) /\ Lower(line.k) \in BodyFields

\* Index of the first line after position i that ends body capture.
RECURSIVE BodyEnd(_, _)
BodyEnd(lines, i) ==
    IF i > Len(lines) THEN i
    ELSE IF ~IsBlank(lines[i]) /\ StartsWithField(lines[i]) THEN i
    ELSE BodyEnd(lines, i + 1)

RECURSIVE ParseLineByLine(_, _, _)
ParseLineByLine(lines, i, acc) ==
    IF i > Len(lines) THEN acc
    ELSE IF IsField(lines[i]) /\ Lower(lines[i].k) = "body"
         THEN LET e == BodyEnd(lines, i + 1)
                  parts == <<T(lines[i].v)>> \o SubSeq(lines, i + 1, e - 1)
              IN ParseLineByLine(lines, e, Put(acc, "body", StripLines(parts)))
         ELSE ParseLineByLine(lines, i + 1, SetField(acc, lines[i]))

ParseStructured(content) ==
    LET lines == SplitLines(content)
        h == FirstBlank(lines)
    IN IF h # 0
       THEN LET hdr == ParseHeaders(SubSeq(lines, 1, h - 1), 1, EmptyDict)
                body == StripLines(SubSeq(lines, h + 1, Len(lines)))
            IN IF "body" \in DOMAIN hdr THEN hdr ELSE Put(hdr, "body", body)
       ELSE ParseLineByLine(lines, 1, EmptyDict)

\* kind: "map" (a dict), "scalar" (a truthy non-dict), "empty" (falsy), "none"
\* (the file could not be read).
parse_action_file(readable, content) ==
    IF ~readable THEN [kind |-> "none", map |-> EmptyDict]
    ELSE LET y == YamlLoad(content) IN
         IF y.kind = "scalar" THEN y
         ELSE IF y.kind = "map" /\ DOMAIN y.map # {} THEN y
         ELSE LET d == ParseStructured(content) IN
              IF DOMAIN d = {} THEN [kind |-> "empty", map |-> d]
              ELSE [kind |-> "map", map |-> d]

(***************************************************************************)
(* AccountingOdooSkill: the MCP channel first, direct XML-RPC as fallback. *)
(* A skill is the record of the instance's fields; every operation         *)
(* returns the new fields, the channel events it caused, its result and    *)
(* the audit entries it logged.                                            *)
(***************************************************************************)
InitSkill ==
    [connected |-> FALSE, use_fallback |-> FALSE,
     direct_client |-> "none", mcp_connected |-> FALSE]

McpResults == {"ok", "false", "timeout", "raise"}

DirectResults == {"ok", "fail"}

CallResults == {"ok", "error", "raise"}

\* What wait_for_approval finds: the request approved, rejected, still
\* pending when the hour is over, or its file missing for the whole hour.
ApprovalResults == {"approved", "rejected", "timeout", "missing"}

Envs(mcps) ==
    [mcp : mcps, direct : DirectResults, call : CallResults,
     approval : ApprovalResults]

AUDIT_MAX == 1000

AUDIT_KEEP == 500

Entry(action, success) == [action |-> action, success |-> success]

\* A trim that keeps the oldest entries instead of the newest.
TrimNewest(l) == IF Len(l) > AUDIT_MAX THEN SubSeq(l, 1, AUDIT_KEEP) ELSE l

\* if len(self._audit_log) > 1000: self._audit_log = self._audit_log[-500:]
Trim(l) == IF Len(l) > AUDIT_MAX THEN SubSeq(l, Len(l) - AUDIT_KEEP + 1, Len(l)) ELSE l

_log_audit(log, action, success) == Trim(Append(log, Entry(action, success)))

SUMMARY_MAX == 500

\* str(result)[:500], by its length.
result_summary(len) == IF len > SUMMARY_MAX THEN SUMMARY_MAX ELSE len

\* The entry with its timestamp and the summary of a result of len characters.
AuditEntry(ts, action, success, len) ==
    [timestamp |-> ts, action |-> action, success |-> success,
     result_summary |-> result_summary(len)]

Outcome(s, evs, ok, error, log) ==
    [skill |-> s, events |-> evs, ok |-> ok, error |-> error, log |-> log]

\* The fallback half of connect (lines 470-495).
ConnectFallback(s, env, evs, log) ==
    IF env.direct = "ok"
    THEN Outcome([s EXCEPT !.connected = TRUE, !.use_fallback = TRUE,
                           !.direct_client = "auth"],
                 evs \o <<"direct_connect">>, TRUE, "", log)
    ELSE Outcome([s EXCEPT !.connected = FALSE, !.direct_client = "unauth"],
                 evs \o <<"direct_connect">>, FALSE, "connect", log)

\* A connect that would contact the direct channel before the MCP channel.
connect_direct_first(s, env, log) ==
    IF env.direct = "ok"
    THEN Outcome([s EXCEPT !.connected = TRUE, !.use_fallback = TRUE,
                           !.direct_client = "auth"],
                 <<"direct_connect">>, TRUE, "", log)
    ELSE Outcome([s EXCEPT !.connected = (env.mcp = "ok"),
                           !.mcp_connected = (env.mcp = "ok"),
                           !.direct_client = "unauth"],
                 <<"direct_connect", "mcp_connect">>, env.mcp = "ok",
                 IF env.mcp = "ok" THEN "" ELSE "connect", log)

connect(s, env, log) ==
    CASE env.mcp = "ok" ->
            Outcome([s EXCEPT !.connected = TRUE, !.mcp_connected = TRUE],
                    <<"mcp_connect">>, TRUE, "", log)
      [] env.mcp = "false" ->
            ConnectFallback([s EXCEPT !.connected = FALSE, !.mcp_connected = FALSE],
                            env, <<"mcp_connect">>, log)
      [] OTHER -> ConnectFallback(s, env, <<"mcp_connect">>, log)

disconnect(s) == [s EXCEPT !.connected = FALSE, !.mcp_connected = FALSE]

\* "if not self._connected: if not await self.connect(): return failure"
EnsureConnection(s, env, log) ==
    IF s.connected THEN Outcome(s, <<>>, TRUE, "", log) ELSE connect(s, env, log)

\* OdooMCPClient.call_tool behind one of the operations of the skill: it raises
\* when not connected; an error result of the tool and an exception of the call
\* both come back as a dict {"success": False, ...}, which the operation does
\* not take for an error (only a str holding "Error" is one).
McpOperation(c, op, env) ==
    IF ~c.skill.mcp_connected
    THEN Outcome(c.skill, c.events, FALSE, "Connection error",
                 _log_audit(c.log, op, FALSE))
    ELSE IF env.call = "ok"
    THEN Outcome(c.skill, c.events \o <<"mcp_call">>, TRUE, "",
                 _log_audit(c.log, op, TRUE))
    ELSE Outcome(c.skill, c.events \o <<"mcp_call", "mcp_error">>, TRUE, "",
                 _log_audit(c.log, op, TRUE))

_create_invoice_direct(c, env) ==
    IF c.skill.direct_client # "auth"
    THEN Outcome(c.skill, c.events, FALSE, "Connection error",
                 _log_audit(c.log, "create_invoice", FALSE))
    ELSE IF env.call = "ok"
    THEN Outcome(c.skill, c.events \o <<"direct_call">>, TRUE, "",
                 _log_audit(c.log, "create_invoice", TRUE))
    ELSE Outcome(c.skill, c.events \o <<"direct_call">>, FALSE, "exception",
                 _log_audit(c.log, "create_invoice", FALSE))

\* A create_invoice that would not wait for the approval.
create_invoice_unapproved(s, require_approval, env, log) ==
    LET c == EnsureConnection(s, env, log) IN
    IF ~c.ok THEN Outcome(c.skill, c.events, FALSE, "Failed to connect", c.log)
    ELSE IF c.skill.use_fallback /\ c.skill.direct_client # "none"
    THEN _create_invoice_direct(c, env)
    ELSE McpOperation(c, "create_invoice", env)

create_invoice(s, require_approval, env, log) ==
    LET c == EnsureConnection(s, env, log) IN
    IF ~c.ok THEN Outcome(c.skill, c.events, FALSE, "Failed to connect", c.log)
    ELSE IF require_approval /\ env.approval # "approved"
    THEN Outcome(c.skill, c.events, FALSE, "not approved",
                 _log_audit(c.log, "create_invoice", FALSE))
    ELSE IF c.skill.use_fallback /\ c.skill.direct_client # "none"
    THEN _create_invoice_direct(c, env)
    ELSE McpOperation(c, "create_invoice", env)

get_total_revenue(s, env, log) ==
    LET c == EnsureConnection(s, env, log) IN
    IF ~c.ok THEN Outcome(c.skill, c.events, FALSE, "Failed to connect", c.log)
    ELSE McpOperation(c, "get_total_revenue", env)

get_partner_info(s, env, log) ==
    LET c == EnsureConnection(s, env, log) IN
    IF ~c.ok THEN Outcome(c.skill, c.events, FALSE, "Failed to connect", c.log)
    ELSE McpOperation(c, "get_partner_info", env)

(***************************************************************************)
(* The vault: directories of files.  A file name is its kind, the          *)
(* timestamp in it and the stem of the task file it derives from.          *)
(***************************************************************************)
StemA == <<"Task", "A">>

StemACopy == <<"Task", "A", "copy">>

Stems == {StemA, StemACopy}

Name(kind, ts, stem) == [kind |-> kind, ts |-> ts, stem |-> stem]

File(name, content) == [name |-> name, content |-> content]

\* <stem>.md, written into Needs_Action by the mail watcher or the operator.
TaskName(stem) == Name("TASK", 0, stem)

\* action.md, an action file the operator writes.
OpName == Name("OP", 0, <<"action">>)

NoName == Name("", 0, <<>>)

Ext(name) == IF name.kind = "APPROVAL" THEN "txt" ELSE "md"

\* The file name as the tokens a glob pattern is matched against.
Render(name) ==
    CASE name.kind \in {"TASK", "OP"} -> name.stem \o <<Ext(name)>>
      [] name.kind = "DRAFT_LINKEDIN_POST" ->
            <<"DRAFT", "LINKEDIN", "POST", ToString(name.ts), Ext(name)>>
      [] OTHER -> <<name.kind, ToString(name.ts)>> \o name.stem \o <<Ext(name)>>

Contains(seq, sub) ==
    \E i \in 1..(Len(seq) - Len(sub) + 1) : SubSeq(seq, i, i + Len(sub) - 1) = sub

SanitizeToken(t) == IF t = "A:B" THEN "A_B" ELSE t

sanitize_filename(stem) == [i \in DOMAIN stem |-> SanitizeToken(stem[i])]

Dirs == {"Inbox", "Needs_Action", "Plans", "Pending_Approval", "Approved", "Done",
         "Executed"}

EmptyVault == [d \in Dirs |-> {}]

Exists(v, d, n) == \E f \in v[d] : f.name = n

ReadFile(v, d, n) == (CHOOSE f \in v[d] : f.name = n).content

\* open(path, 'w') and write: replaces a file of the same name.
WriteFile(v, d, n, c) ==
    [v EXCEPT ![d] = {f \in @ : f.name # n} \cup {File(n, c)}]

RemoveFile(v, d, n) == [v EXCEPT ![d] = {f \in @ : f.name # n}]

\* A move that replaces an existing destination whether asked to or not.
move_file_replacing(v, sd, sn, dd, dn, overwrite) ==
    IF ~Exists(v, sd, sn) THEN [ok |-> FALSE, vault |-> v]
    ELSE [ok |-> TRUE,
          vault |-> WriteFile(RemoveFile(v, sd, sn), dd, dn, ReadFile(v, sd, sn))]

move_file(v, sd, sn, dd, dn, overwrite) ==
    IF ~Exists(v, sd, sn) THEN [ok |-> FALSE, vault |-> v]
    ELSE IF Exists(v, dd, dn) /\ ~overwrite THEN [ok |-> FALSE, vault |-> v]
    ELSE [ok |-> TRUE,
          vault |-> WriteFile(RemoveFile(v, sd, sn), dd, dn, ReadFile(v, sd, sn))]

(***************************************************************************)
(* ActionRunner: execution of one parsed action.  env holds what the       *)
(* collaborators answer.                                                   *)
(***************************************************************************)
GmailResults == {"sent", "error", "no_service"}

LinkedInResults == {"ok", "fail", "raise", "unavailable"}

OdooEnvs(mcps) ==
    [mcp : mcps, direct : DirectResults, call : CallResults, approval : {"approved"}]

DefaultEnv ==
    [gmail |-> "sent", linkedin |-> "ok",
     odoo |-> [mcp |-> "ok", direct |-> "ok", call |-> "ok", approval |-> "approved"]]

\* The answers of the one collaborator an action of this type consults.
RunnerEnvs(action_type) ==
    CASE action_type = "email_send" ->
            {[DefaultEnv EXCEPT !.gmail = g] : g \in GmailResults}
      [] action_type = "linkedin_post" ->
            {[DefaultEnv EXCEPT !.linkedin = l] : l \in LinkedInResults}
      [] action_type = "approval_request" ->
            {[DefaultEnv EXCEPT !.odoo = o] : o \in OdooEnvs(McpResults)}
      [] OTHER -> {DefaultEnv}

\* ret: what execute_action returns; collab: the collaborator it invoked;
\* odoo: the result of the Odoo operation, if one ran.
Exec(ret, collab, odoo) ==
    [ret |-> ret, collab |-> collab, odoo |-> odoo, events |-> <<>>, audit |-> <<>>]

\* A sender that did not look for the recipient and the subject first.
execute_email_send_unchecked(m, env) ==
    CASE env.gmail = "no_service" -> Exec(FALSE, "none", "none")
      [] env.gmail = "sent" -> Exec(TRUE, "gmail", "none")
      [] OTHER -> Exec(FALSE, "gmail", "none")

execute_email_send_action(m, env) ==
    IF Get(m, "to", "") = "" \/ Get(m, "subject", "") = ""
    THEN Exec(FALSE, "none", "none")
    ELSE CASE env.gmail = "no_service" -> Exec(FALSE, "none", "none")
           [] env.gmail = "sent" -> Exec(TRUE, "gmail", "none")
           [] OTHER -> Exec(FALSE, "gmail", "none")

execute_linkedin_post_action(m, env) ==
    IF Get(m, "content", "") = "" /\ Get(m, "body", <<>>) = <<>>
    THEN Exec(FALSE, "none", "none")
    ELSE CASE env.linkedin = "unavailable" -> Exec(FALSE, "none", "none")
           [] env.linkedin = "ok" -> Exec(TRUE, "linkedin", "none")
           [] OTHER -> Exec(FALSE, "linkedin", "none")

\* re.search(r'<key>:\s*(\w+)', content): the first line holding "<key>: word".
SearchKey(content, keys) ==
    IF \E i \in 1..Len(content) : content[i].k \in keys /\ content[i].v # ""
    THEN content[CHOOSE i \in 1..Len(content) :
                    /\ content[i].k \in keys /\ content[i].v # ""
                    /\ \A j \in 1..(i - 1) : ~(content[j].k \in keys /\ content[j].v # "")].v
    ELSE ""

\* ast.literal_eval on the text between "Tool Arguments:" and "---" or the end.
LiteralEval(text) ==
    IF Len(text) = 1 /\ text[1].v = ArgsOk
    THEN [ok |-> TRUE, args |-> {"customer", "amount", "description"}]
    ELSE IF Len(text) = 1 /\ text[1].v = ArgsMissing
    THEN [ok |-> TRUE, args |-> {"customer"}]
    ELSE [ok |-> FALSE, args |-> {}]

RECURSIVE ArgsEnd(_, _)
ArgsEnd(content, i) ==
    IF i > Len(content) \/ content[i] = T("---") THEN i ELSE ArgsEnd(content, i + 1)

ToolArguments(content) ==
    IF \E i \in 1..Len(content) : content[i] = F("Tool Arguments", "")
    THEN LET i == CHOOSE i \in 1..Len(content) :
                    /\ content[i] = F("Tool Arguments", "")
                    /\ \A j \in 1..(i - 1) : content[j] # F("Tool Arguments", "")
         IN LiteralEval(StripLines(SubSeq(content, i + 1, ArgsEnd(content, i + 1) - 1)))
    ELSE [ok |-> TRUE, args |-> {}]

\* arg_mapping of _execute_odoo_action, in the order of the dictionary.
ArgMapping ==
    <<<<"customer", "client_name">>, <<"partner_name", "client_name">>,
      <<"client", "client_name">>, <<"company", "client_name">>,
      <<"cost", "amount">>, <<"price", "amount">>, <<"total", "amount">>,
      <<"value", "amount">>, <<"desc", "description">>,
      <<"details", "description">>, <<"note", "description">>,
      <<"memo", "description">>>>

\* Only the keys of the arguments matter to the call.
RECURSIVE MapArguments(_, _)
MapArguments(keys, i) ==
    IF i > Len(ArgMapping) THEN keys
    ELSE IF ArgMapping[i][1] \in keys /\ ArgMapping[i][2] \notin keys
         THEN MapArguments((keys \ {ArgMapping[i][1]}) \cup {ArgMapping[i][2]}, i + 1)
         ELSE MapArguments(keys, i + 1)

\* Python binds the keyword arguments to the signature; a TypeError otherwise.
Binds(method, keys) ==
    CASE method = "create_invoice" ->
            /\ {"client_name", "amount", "description"} \subseteq keys
            /\ keys \subseteq {"client_name", "amount", "description", "require_approval"}
      [] method = "get_partner_info" -> keys = {"partner_name"}
      [] OTHER -> keys = {}

OdooMethods == {"create_invoice", "get_total_revenue", "get_partner_info"}

\* A new AccountingOdooSkill for every action; the result dictionary, as
\* "success", "failure: <error>" or "None".
_execute_odoo_action(action, keys, env) ==
    IF action \notin OdooMethods THEN [result |-> "None", events |-> <<>>, audit |-> <<>>]
    ELSE LET mapped == MapArguments(keys, 1) IN
         IF ~Binds(action, mapped)
         THEN [result |-> "None", events |-> <<>>, audit |-> <<>>]
         ELSE LET o == CASE action = "create_invoice" ->
                              create_invoice(InitSkill, FALSE, env.odoo, <<>>)
                         [] action = "get_total_revenue" ->
                              get_total_revenue(InitSkill, env.odoo, <<>>)
                         [] OTHER -> get_partner_info(InitSkill, env.odoo, <<>>)
              IN [result |-> IF o.ok THEN "success" ELSE o.error,
                  events |-> o.events, audit |-> o.log]

execute_approval_request_action(m, content, env) ==
    LET tool == IF Get(m, "tool", "") # "" THEN m["tool"]
                ELSE SearchKey(content, {"tool", "mcp_tool"})
        action == IF Get(m, "action", "") # "" THEN m["action"]
                  ELSE SearchKey(content, {"action"})
        arguments == ToolArguments(content)
    IN IF tool = "" \/ action = "" \/ ~arguments.ok THEN Exec(FALSE, "none", "none")
       ELSE IF tool = "AccountingOdooSkill"
       THEN LET r == _execute_odoo_action(action, arguments.args, env) IN
            \* "if result:" is true of every dictionary the skill returns
            [Exec(r.result # "None", IF r.events = <<>> THEN "none" ELSE "odoo", r.result)
                EXCEPT !.events = r.events, !.audit = r.audit]
       ELSE Exec(FALSE, "none", "none")

execute_action(m, content, env) ==
    LET action_type == Lower(Get(m, "type", "")) IN
    CASE action_type = "email_send" -> execute_email_send_action(m, env)
      [] action_type = "linkedin_post" -> execute_linkedin_post_action(m, env)
      [] action_type = "approval_request" ->
            execute_approval_request_action(m, content, env)
      [] OTHER -> Exec(FALSE, "none", "none")

ContentIds ==
    {"email", "reply", "bogus", "text", "null", "linkedin", "odoo", "mail", "post", "plan",
     "draft_facebook", "draft_twitter"}

\* parse_action_file on every content of the model, computed once.
Parsed == [id \in ContentIds |-> parse_action_file(TRUE, Corpus(id))]

ParseFile(v, path) ==
    IF Exists(v, path.dir, path.name) THEN Parsed[ReadFile(v, path.dir, path.name)]
    ELSE parse_action_file(FALSE, <<>>)

\* process_approved_file as run_once calls it: outcome is "unparsed" (return
\* before the move), "raised" (an exception run_once catches) or "executed".
Processed(v, outcome, ex, moved) ==
    [vault |-> v, outcome |-> outcome, ret |-> ex.ret, collab |-> ex.collab,
     odoo |-> ex.odoo, events |-> ex.events, audit |-> ex.audit, moved |-> moved]

\* Lines 623-637: the action is executed, then the file is moved to Done.
ExecuteAndMove(v, path, ex, mv) == Processed(mv.vault, "executed", ex, mv.ok)

\* Lines 616-637, on the value parse_action_file returned.
HandleParsed(v, path, action_data, content, env) ==
    CASE action_data.kind \in {"none", "empty"} ->
            Processed(v, "unparsed", Exec(FALSE, "none", "none"), FALSE)
      [] action_data.kind = "scalar" ->
            Processed(v, "raised", Exec(FALSE, "none", "none"), FALSE)
      [] OTHER ->
            ExecuteAndMove(v, path, execute_action(action_data.map, content, env),
                           move_file(v, path.dir, path.name, "Done", path.name, FALSE))

process_approved_file(v, path, env) ==
    HandleParsed(v, path, ParseFile(v, path),
                 IF Exists(v, path.dir, path.name)
                 THEN Corpus(ReadFile(v, path.dir, path.name)) ELSE <<>>,
                 env)

\* The type of the action in a file, "" if it has none.
ActionType(v, path) ==
    LET action_data == ParseFile(v, path)
    IN IF action_data.kind = "map" THEN Lower(Get(action_data.map, "type", "")) ELSE ""

\* A listing that would also take the files still awaiting approval.
ApprovedOrPendingFiles(v) ==
    {[dir |-> "Approved", name |-> f.name] : f \in v["Approved"]}
        \cup {[dir |-> "Pending_Approval", name |-> f.name] : f \in v["Pending_Approval"]}

\* APPROVED_DIR.glob("*.md") + APPROVED_DIR.glob("*.txt")
ApprovedFiles(v) ==
    {[dir |-> "Approved", name |-> f.name] : f \in {g \in v["Approved"] : Ext(g.name) \in {"md", "txt"}}}

(***************************************************************************)
(* State machine of the vault.                                             *)
(***************************************************************************)
Producers == {"periodic", "event"}

\* The task file of each stem: a mail to answer, or a request for a post.
TaskContent(stem) == IF stem = StemA THEN "mail" ELSE "post"

\* What the operator may write into Approved by hand.
OperatorContents == {"email", "bogus", "text", "null", "odoo", "linkedin"}

NoProc ==
    [path |-> [dir |-> "", name |-> NoName], present |-> FALSE, type |-> "",
     outcome |-> "", ret |-> FALSE, collab |-> "none", odoo |-> "none",
     events |-> <<>>, audit |-> <<>>, fellBack |-> FALSE, moved |-> FALSE,
     stillApproved |-> FALSE]

NoCall ==
    [op |-> "", events |-> <<>>, ok |-> FALSE, error |-> "", mcp |-> "",
     before |-> InitSkill, require_approval |-> FALSE, approval |-> ""]

InitOdooVars ==
    /\ skill = InitSkill
    /\ lastCall = NoCall
    /\ auditLog = <<>>

\* No wait_for_approval call and no wait_for_file_stability call is running.
NoWait ==
    [pc |-> "idle", timeout_seconds |-> 0, elapsed |-> 0, result |-> "none",
     timed_out |-> FALSE]

NoStab ==
    [pc |-> "idle", initial_size |-> 0, previous |-> 0, last |-> 0, seen |-> 0,
     slept |-> 0, gap |-> 0, result |-> "none"]

\* No relocation has been called.
NoReloc ==
    [issued |-> {}, removed |-> {}, archiving |-> NoName,
     last |-> [op |-> "", ok |-> FALSE, overwrite |-> FALSE, collision |-> FALSE,
               sn |-> NoName, dn |-> NoName, ts |-> 0, clobbered |-> {},
               source_kept |-> TRUE, source |-> FALSE, unchanged |-> TRUE]]

\* The threads that start() creates, in the order in which stop() joins them.
Threads == <<"GmailWatcher", "PlanGeneration", "FileSystemWatcher", "ActionRunner">>

ThreadNames == {Threads[i] : i \in 1..Len(Threads)}

\* The application has not been started.
NoShut ==
    [main |-> "idle", next |-> 1,
     running |-> [app |-> FALSE, gmail |-> FALSE, runner |-> FALSE],
     loops |-> [t \in ThreadNames |-> "unstarted"],
     logged |-> {}, killed |-> [t \in ThreadNames |-> ""]]

\* No event has been dispatched to the handler.
NoWatch ==
    [pc |-> "idle", alive |-> TRUE, event |-> [type |-> "", is_directory |-> FALSE, part |-> ""],
     dispatched |-> 0, outcome |-> "", calls |-> <<>>]

\* No Tool Arguments have been parsed.
NoNorm == [pc |-> "idle", arguments |-> EmptyDict, once |-> EmptyDict, twice |-> EmptyDict]

\* No action file has been parsed.
NoParse ==
    [pc |-> "idle", free |-> <<>>, action_data |-> [kind |-> "none", map |-> EmptyDict],
     collab |-> "none", ret |-> FALSE, odoo |-> "none", events |-> <<>>,
     outcome |-> ""]

\* One SocialMediaSkill before any of its methods is called: no file of its own
\* on disk, no path handed to execute_approved_post, no tool call made.
NoSocial ==
    [given |-> [dir |-> <<>>, name |-> NoName], calls |-> <<>>, ret |-> "none",
     audits |-> 0, archived |-> {}]

InitPollVars ==
    /\ wait = NoWait
    /\ approvalFile = "pending"
    /\ stab = NoStab
    /\ inbox = [exists |-> FALSE, size |-> 0]

InitLoops ==
    /\ clock = 0
    /\ events = {}
    /\ pc = [p \in Producers |-> IF p = "periodic" THEN "start" ELSE "idle"]
    /\ todo = [p \in Producers |-> {}]
    /\ cur = [p \in Producers |-> NoName]
    /\ queue = {}
    /\ dispatched = {}
    /\ redispatched = {}
    /\ planWrites = [s \in Stems |-> {}]
    /\ lastProc = NoProc
    /\ fellBack = FALSE
    /\ reloc = NoReloc
    /\ shut = NoShut
    /\ watch = NoWatch
    /\ norm = NoNorm
    /\ parse = NoParse
    /\ social = NoSocial
    /\ mcpMode = "any"
    /\ InitOdooVars

\* The directories are created empty on startup.
Init ==
    /\ InitLoops
    /\ InitPollVars
    /\ vault = EmptyVault

\* datetime.now() moves on by a second.
Tick ==
    /\ clock < MaxClock
    /\ clock' = clock + 1
    /\ UNCHANGED <<vault, events, pc, todo, cur, queue, dispatched, redispatched,
                   planWrites, lastProc, fellBack, odooVars, pollVars, reloc, shut, watch, norm, parse, social>>

\* A task file appears in Needs_Action; the watcher queues its 'created' event.
TaskArrives(stem) ==
    /\ ~Exists(vault, "Needs_Action", TaskName(stem))
    /\ vault' = WriteFile(vault, "Needs_Action", TaskName(stem), TaskContent(stem))
    /\ events' = events \cup {TaskName(stem)}
    /\ planWrites' = [planWrites EXCEPT ![stem] = {}]
    /\ UNCHANGED <<clock, pc, todo, cur, queue, dispatched, redispatched, lastProc, fellBack, odooVars, pollVars, reloc, shut, watch, norm, parse, social>>

\* PLANS_DIR.glob(f"*{file_stem}*")
existing_plans(v, stem) == {f \in v["Plans"] : Contains(Render(f.name), stem)}

\* FileSystemEventLogger.on_created drops the event of a file that is gone.
EventDropped(n) ==
    /\ n \in events
    /\ ~Exists(vault, "Needs_Action", n)
    /\ events' = events \ {n}
    /\ UNCHANGED <<clock, vault, pc, todo, cur, queue, dispatched, redispatched,
                   planWrites, lastProc, fellBack, odooVars, pollVars, reloc, shut, watch, norm, parse, social>>

\* handle_file_system_event: a plan already exists for the stem.
EventDuplicate(n) ==
    /\ n \in events
    /\ Exists(vault, "Needs_Action", n)
    /\ existing_plans(vault, n.stem) # {}
    /\ events' = events \ {n}
    /\ UNCHANGED <<clock, vault, pc, todo, cur, queue, dispatched, redispatched,
                   planWrites, lastProc, fellBack, odooVars, pollVars, reloc, shut, watch, norm, parse, social>>

\* handle_file_system_event: starts a thread that runs plan_skill.run_once.
EventSpawn(n) ==
    /\ n \in events
    /\ Exists(vault, "Needs_Action", n)
    /\ existing_plans(vault, n.stem) = {}
    /\ pc["event"] = "idle"
    /\ events' = events \ {n}
    /\ pc' = [pc EXCEPT !["event"] = "start"]
    /\ UNCHANGED <<clock, vault, todo, cur, queue, dispatched, redispatched,
                   planWrites, lastProc, fellBack, odooVars, pollVars, reloc, shut, watch, norm, parse, social>>

\* process_tasks: find_files(needs_action_dir, "*.md")
task_files(v) == {f.name : f \in {g \in v["Needs_Action"] : Ext(g.name) = "md"}}

Scan(p) ==
    /\ pc[p] = "start"
    /\ todo' = [todo EXCEPT ![p] = task_files(vault)]
    /\ pc' = [pc EXCEPT ![p] = "loop"]
    /\ UNCHANGED <<clock, vault, events, cur, queue, dispatched, redispatched,
                   planWrites, lastProc, fellBack, odooVars, pollVars, reloc, shut, watch, norm, parse, social>>

\* Reading the task file or writing the plan or the approval file succeeds
\* or raises (an unreadable file, a full disk, a directory that is gone).
IoResults == {"ok", "raise"}

Raises(r, v, io) == IF io = "raise" THEN [ok |-> FALSE, vault |-> v] ELSE r

\* An exception swallowed where it is raised: the caller goes on.
AfterCreateSwallowed(ok, next) == next

\* create_plan_from_task and create_approval_file log and re-raise; the
\* handler of process_tasks is the end of the iteration.
AfterCreate(ok, next) == IF ok THEN next ELSE "raised"

\* create_plan_from_task up to write_plan_to_file; a task file that is gone
\* raises, and process_tasks goes on with the next one.
plan_file(v, n, ts) ==
    IF ~Exists(v, "Needs_Action", n) THEN [ok |-> FALSE, vault |-> v]
    ELSE [ok |-> TRUE,
          vault |-> WriteFile(v, "Plans", Name("PLAN", ts, sanitize_filename(n.stem)), "plan")]

WritePlanWith(p, ios) ==
    /\ pc[p] = "loop"
    /\ \E n \in todo[p], io \in ios :
          LET r == Raises(plan_file(vault, n, clock), vault, io) IN
          /\ todo' = [todo EXCEPT ![p] = @ \ {n}]
          /\ vault' = r.vault
          /\ cur' = [cur EXCEPT ![p] = n]
          /\ pc' = [pc EXCEPT ![p] = AfterCreate(r.ok, "approval")]
          /\ planWrites' = IF r.ok THEN [planWrites EXCEPT ![n.stem] = @ \cup {p}]
                           ELSE planWrites
    /\ UNCHANGED <<clock, events, queue, dispatched, redispatched, lastProc, fellBack, odooVars, pollVars, reloc, shut, watch, norm, parse, social>>

WritePlan(p) == WritePlanWith(p, IoResults)

LinkedInSubjects == {"# LinkedIn post"}

is_linkedin_post(content) ==
    \E i \in 1..Len(content) : content[i].v \in LinkedInSubjects

\* create_approval_file: a LinkedIn draft or an email reply in Pending_Approval.
approval_file(v, n, ts) ==
    IF ~Exists(v, "Needs_Action", n) THEN [ok |-> FALSE, vault |-> v]
    ELSE IF is_linkedin_post(Corpus(ReadFile(v, "Needs_Action", n)))
    THEN [ok |-> TRUE,
          vault |-> WriteFile(v, "Pending_Approval",
                              Name("DRAFT_LINKEDIN_POST", ts, <<>>), "linkedin")]
    ELSE [ok |-> TRUE,
          vault |-> WriteFile(v, "Pending_Approval",
                              Name("APPROVAL", ts, sanitize_filename(n.stem)), "reply")]

WriteApprovalWith(p, ios) ==
    /\ pc[p] = "approval"
    /\ \E io \in ios :
          LET r == Raises(approval_file(vault, cur[p], clock), vault, io) IN
          /\ vault' = r.vault
          /\ pc' = [pc EXCEPT ![p] = AfterCreate(r.ok, "move")]
    /\ UNCHANGED <<clock, events, todo, cur, queue, dispatched, redispatched,
                   planWrites, lastProc, fellBack, odooVars, pollVars, reloc, shut, watch, norm, parse, social>>

WriteApproval(p) == WriteApprovalWith(p, IoResults)

\* A handler that gives up the pass and the loop on the first exception.
LogErrorAndStop(p) ==
    /\ pc[p] = "raised"
    /\ pc' = [pc EXCEPT ![p] = "idle"]
    /\ todo' = [todo EXCEPT ![p] = {}]
    /\ cur' = [cur EXCEPT ![p] = NoName]
    /\ UNCHANGED <<clock, vault, events, queue, dispatched, redispatched,
                   planWrites, lastProc, fellBack, odooVars, pollVars, reloc, shut, watch, norm, parse, social>>

\* process_tasks: the handler of the iteration logs the error; the loop
\* goes on with the next task file.
LogError(p) ==
    /\ pc[p] = "raised"
    /\ pc' = [pc EXCEPT ![p] = "loop"]
    /\ cur' = [cur EXCEPT ![p] = NoName]
    /\ UNCHANGED <<clock, vault, events, todo, queue, dispatched, redispatched,
                   planWrites, lastProc, fellBack, odooVars, pollVars, reloc, shut, watch, norm, parse, social>>

\* process_tasks: move the task file to Done after plan creation.
MoveTask(p) ==
    /\ pc[p] = "move"
    /\ vault' = move_file(vault, "Needs_Action", cur[p], "Done", cur[p], FALSE).vault
    /\ pc' = [pc EXCEPT ![p] = "loop"]
    /\ cur' = [cur EXCEPT ![p] = NoName]
    /\ UNCHANGED <<clock, events, todo, queue, dispatched, redispatched,
                   planWrites, lastProc, fellBack, odooVars, pollVars, reloc, shut, watch, norm, parse, social>>

\* process_tasks returns; the periodic loop sleeps and starts over.
Finish(p) ==
    /\ pc[p] = "loop"
    /\ todo[p] = {}
    /\ pc' = [pc EXCEPT ![p] = IF p = "periodic" THEN "start" ELSE "idle"]
    /\ UNCHANGED <<clock, vault, events, todo, cur, queue, dispatched,
                   redispatched, planWrites, lastProc, fellBack, odooVars, pollVars, reloc, shut, watch, norm, parse, social>>

\* The human approves: the file is moved from Pending_Approval to Approved.
HumanApprove(f) ==
    /\ f \in vault["Pending_Approval"]
    /\ ~Exists(vault, "Approved", f.name)
    /\ vault' = move_file(vault, "Pending_Approval", f.name, "Approved", f.name, FALSE).vault
    /\ dispatched' = dispatched \ {f.name}
    /\ UNCHANGED <<clock, events, pc, todo, cur, queue, redispatched, planWrites,
                   lastProc, fellBack, odooVars, pollVars, reloc, shut, watch, norm, parse, social>>

\* The operator writes an action file into Approved.
OperatorDrop(c) ==
    /\ ~Exists(vault, "Approved", OpName)
    /\ vault' = WriteFile(vault, "Approved", OpName, c)
    /\ dispatched' = dispatched \ {OpName}
    /\ UNCHANGED <<clock, events, pc, todo, cur, queue, redispatched, planWrites,
                   lastProc, fellBack, odooVars, pollVars, reloc, shut, watch, norm, parse, social>>

\* run_once lists the Approved directory.
RunnerScan ==
    /\ queue = {}
    /\ ApprovedFiles(vault) # {}
    /\ queue' = ApprovedFiles(vault)
    /\ UNCHANGED <<clock, vault, events, pc, todo, cur, dispatched, redispatched,
                   planWrites, lastProc, fellBack, odooVars, pollVars, reloc, shut, watch, norm, parse, social>>

\* run_once handles one listed file.
\* What one process_approved_file call, of type action_type and result r,
\* leaves behind.
Handled(path, action_type, r) ==
    /\ vault' = r.vault
    /\ lastProc' =
          [path |-> path, present |-> Exists(vault, path.dir, path.name),
           type |-> action_type, outcome |-> r.outcome, ret |-> r.ret,
           collab |-> r.collab, odoo |-> r.odoo, events |-> r.events,
           audit |-> r.audit,
           fellBack |-> fellBack, moved |-> r.moved,
           stillApproved |-> Exists(r.vault, path.dir, path.name)]
    /\ dispatched' = IF r.collab # "none" THEN dispatched \cup {path.name}
                     ELSE dispatched
    /\ redispatched' =
          IF r.collab # "none" /\ path.name \in dispatched
          THEN redispatched \cup {path.name} ELSE redispatched
    /\ fellBack' = (fellBack \/ "direct_call" \in Range(r.events))

ProcessAs(path, action_type) ==
    \E env \in RunnerEnvs(action_type) :
        Handled(path, action_type, process_approved_file(vault, path, env))

RunnerProcess(path) ==
    /\ path \in queue
    /\ queue' = queue \ {path}
    /\ ProcessAs(path, ActionType(vault, path))
    /\ UNCHANGED <<clock, events, pc, todo, cur, planWrites, odooVars, pollVars, reloc, shut, watch, norm, parse, social>>

\* The vault after one plan-generation cycle on a task file: its plan is in
\* Plans, its approval request in Pending_Approval, the task file in Done.
CycleVault ==
    LET v0 == WriteFile(EmptyVault, "Needs_Action", TaskName(StemA), TaskContent(StemA))
        v1 == plan_file(v0, TaskName(StemA), 0).vault
        v2 == approval_file(v1, TaskName(StemA), 0).vault
    IN move_file(v2, "Needs_Action", TaskName(StemA), "Done", TaskName(StemA), FALSE).vault

InitRun ==
    /\ InitLoops
    /\ InitPollVars
    /\ vault = CycleVault

\* The executor side: the human, the operator and the ActionRunner, after a
\* plan-generation cycle has left an approval request in Pending_Approval.
Next ==
    \/ \E f \in vault["Pending_Approval"] : HumanApprove(f)
    \/ \E c \in OperatorContents : OperatorDrop(c)
    \/ RunnerScan
    \/ \E path \in queue : RunnerProcess(path)

Spec == InitRun /\ [][Next]_vars

\* Both task files are in Needs_Action when the loops start.
InitPass ==
    /\ InitLoops
    /\ InitPollVars
    /\ vault = WriteFile(WriteFile(EmptyVault, "Needs_Action", TaskName(StemA),
                                   TaskContent(StemA)),
                         "Needs_Action", TaskName(StemACopy), TaskContent(StemACopy))

\* The passes of the periodic plan-generation loop and of the ActionRunner
\* loop over the items they have listed, with the human and the operator.
PassNext ==
    \/ Next
    \/ \E p \in Producers : Scan(p)
    \/ \E p \in Producers : WritePlan(p)
    \/ \E p \in Producers : WriteApproval(p)
    \/ \E p \in Producers : LogError(p)
    \/ \E p \in Producers : MoveTask(p)
    \/ \E p \in Producers : Finish(p)

SpecPass == InitPass /\ [][PassNext]_vars

\* The producer side: the watcher callback, the thread it starts and the
\* periodic loop, over the task files of both stems.
PlanNext ==
    \/ Tick
    \/ \E stem \in Stems : TaskArrives(stem)
    \/ \E n \in events : EventDropped(n)
    \/ \E n \in events : EventDuplicate(n)
    \/ \E n \in events : EventSpawn(n)
    \/ \E p \in Producers : Scan(p)
    \/ \E p \in Producers : WritePlan(p)
    \/ \E p \in Producers : WriteApproval(p)
    \/ \E p \in Producers : LogError(p)
    \/ \E p \in Producers : MoveTask(p)
    \/ \E p \in Producers : Finish(p)

SpecPlan == Init /\ [][PlanNext]_vars

(***************************************************************************)
(* State machine of one AccountingOdooSkill instance and its callers.      *)
(***************************************************************************)
McpModes == {"any", "timeout"}

\* What the channels answer to one call, under the MCP behaviour of the run.
CallEnvs == IF mcpMode = "timeout" THEN Envs({"timeout"}) ELSE Envs(McpResults)

\* The answers that matter to an operation that makes no direct call and
\* asks for no approval.
ConnectEnvs == {env \in CallEnvs : env.call = "ok" /\ env.approval = "approved"}

\* The answers that matter to an operation that asks for no approval.
OperationEnvs == {env \in CallEnvs : env.approval = "approved"}

\* The answers that matter to create_invoice.
InvoiceEnvs(require_approval) ==
    {env \in CallEnvs : require_approval \/ env.approval = "approved"}

InitOdoo ==
    /\ clock = 0
    /\ vault = EmptyVault
    /\ events = {}
    /\ pc = [p \in Producers |-> IF p = "periodic" THEN "start" ELSE "idle"]
    /\ todo = [p \in Producers |-> {}]
    /\ cur = [p \in Producers |-> NoName]
    /\ queue = {}
    /\ dispatched = {}
    /\ redispatched = {}
    /\ planWrites = [s \in Stems |-> {}]
    /\ lastProc = NoProc
    /\ fellBack = FALSE
    /\ reloc = NoReloc
    /\ shut = NoShut
    /\ watch = NoWatch
    /\ norm = NoNorm
    /\ parse = NoParse
    /\ social = NoSocial
    /\ mcpMode \in McpModes
    /\ InitOdooVars
    /\ InitPollVars

\* What is recorded of one operation of the skill.
Call(op, env, o) ==
    [op |-> op, events |-> o.events, ok |-> o.ok, error |-> o.error,
     mcp |-> env.mcp, before |-> skill, require_approval |-> FALSE,
     approval |-> ""]

Connect ==
    /\ \E env \in ConnectEnvs :
          LET o == connect(skill, env, auditLog) IN
          /\ skill' = o.skill
          /\ lastCall' = Call("connect", env, o)
          /\ auditLog' = o.log
    /\ UNCHANGED <<vaultVars, pollVars, reloc, shut, watch, norm, parse, social, mcpMode>>

Disconnect ==
    /\ skill' = disconnect(skill)
    /\ lastCall' = [op |-> "disconnect", events |-> <<>>, ok |-> TRUE, error |-> "",
                    mcp |-> "", before |-> skill, require_approval |-> FALSE,
                    approval |-> ""]
    /\ UNCHANGED <<vaultVars, pollVars, reloc, shut, watch, norm, parse, social, mcpMode, auditLog>>

CreateInvoice(require_approval) ==
    /\ Len(auditLog) < MaxAudit
    /\ \E env \in InvoiceEnvs(require_approval) :
          LET o == create_invoice(skill, require_approval, env, auditLog) IN
          /\ skill' = o.skill
          /\ lastCall' = [Call("create_invoice", env, o)
                            EXCEPT !.require_approval = require_approval,
                                   !.approval = IF require_approval
                                                THEN env.approval ELSE ""]
          /\ auditLog' = o.log
    /\ UNCHANGED <<vaultVars, pollVars, reloc, shut, watch, norm, parse, social, mcpMode>>

GetTotalRevenue ==
    /\ Len(auditLog) < MaxAudit
    /\ \E env \in OperationEnvs :
          LET o == get_total_revenue(skill, env, auditLog) IN
          /\ skill' = o.skill
          /\ lastCall' = Call("get_total_revenue", env, o)
          /\ auditLog' = o.log
    /\ UNCHANGED <<vaultVars, pollVars, reloc, shut, watch, norm, parse, social, mcpMode>>

GetPartnerInfo ==
    /\ Len(auditLog) < MaxAudit
    /\ \E env \in OperationEnvs :
          LET o == get_partner_info(skill, env, auditLog) IN
          /\ skill' = o.skill
          /\ lastCall' = Call("get_partner_info", env, o)
          /\ auditLog' = o.log
    /\ UNCHANGED <<vaultVars, pollVars, reloc, shut, watch, norm, parse, social, mcpMode>>

OdooNext ==
    \/ Connect
    \/ Disconnect
    \/ \E require_approval \in BOOLEAN : CreateInvoice(require_approval)
    \/ GetTotalRevenue
    \/ GetPartnerInfo

SpecOdoo == InitOdoo /\ [][OdooNext]_vars

(***************************************************************************)
(* ApprovalManager.wait_for_approval: the polling loop on the approval     *)
(* request file.  Time is read in seconds since start_time; it advances    *)
(* in the sleep between two polls.                                         *)
(***************************************************************************)
POLL_SECONDS == 5

\* The request file as the human leaves it: its status field, the file
\* removed, or a file that json.load rejects.
ApprovalFileStates == {"pending", "approved", "rejected", "missing", "corrupt"}

\* check_approval: None when the file is missing, the status read from it
\* otherwise; json.load raises on a file that is not JSON.
check_approval(file) ==
    CASE file = "missing" -> "None"
      [] file = "corrupt" -> "raise"
      [] OTHER -> file

\* A loop condition that still holds one poll interval after the timeout.
WithinTimeoutLate(w) == w.elapsed <= w.timeout_seconds + POLL_SECONDS

\* while time.time() - start_time < timeout_seconds
WithinTimeout(w) == w.elapsed < w.timeout_seconds

Returned(w, result, timed_out) ==
    [w EXCEPT !.pc = "done", !.result = result, !.timed_out = timed_out]

\* One pass of the loop up to its sleep: the loop condition, the poll and
\* the two returns inside the loop.
wait_for_approval_poll(w, file) ==
    IF ~WithinTimeout(w) THEN Returned(w, "false", TRUE)
    ELSE CASE check_approval(file) = "raise" -> Returned(w, "raised", FALSE)
           [] check_approval(file) = "approved" -> Returned(w, "true", FALSE)
           [] check_approval(file) = "rejected" -> Returned(w, "false", FALSE)
           [] OTHER -> [w EXCEPT !.pc = "sleep"]

\* request_approval has written the file with status "pending";
\* start_time = time.time().
InitWait ==
    /\ InitLoops
    /\ vault = EmptyVault
    /\ \E t \in 0..MaxTimeout :
           wait = [NoWait EXCEPT !.pc = "loop", !.timeout_seconds = t]
    /\ approvalFile = "pending"
    /\ stab = NoStab
    /\ inbox = [exists |-> FALSE, size |-> 0]

WaitPoll ==
    /\ wait.pc = "loop"
    /\ wait' = wait_for_approval_poll(wait, approvalFile)
    /\ UNCHANGED <<vaultVars, odooVars, reloc, shut, watch, norm, parse, social, approvalFile, stab, inbox>>

\* time.sleep(5)
WaitSleep ==
    /\ wait.pc = "sleep"
    /\ wait' = [wait EXCEPT !.pc = "loop", !.elapsed = @ + POLL_SECONDS]
    /\ UNCHANGED <<vaultVars, odooVars, reloc, shut, watch, norm, parse, social, approvalFile, stab, inbox>>

\* The human edits, removes or damages the request file while the call
\* is polling.
HumanWrites(file) ==
    /\ wait.pc \in {"loop", "sleep"}
    /\ file # approvalFile
    /\ approvalFile' = file
    /\ UNCHANGED <<vaultVars, odooVars, reloc, shut, watch, norm, parse, social, wait, stab, inbox>>

WaitNext ==
    \/ WaitPoll
    \/ WaitSleep
    \/ \E file \in ApprovalFileStates : HumanWrites(file)

SpecWait == InitWait /\ [][WaitNext]_vars

(***************************************************************************)
(* wait_for_file_stability as InboxHandler.on_created calls it: the file   *)
(* dropped into the Inbox is observed with stat() between sleeps while its *)
(* writer may still change or remove it.  A step of the detector is one    *)
(* observation of the file and the sleep that follows it.                  *)
(***************************************************************************)
POLLING_INTERVAL == 1

CONFIRMATION_DELAY == 2

\* A comparison of two sizes that always finds them equal.
StableAlways(a, b) == TRUE

\* A comparison of two sizes that never finds them equal.
StableNever(a, b) == FALSE

\* current_size == initial_size, final_check_size == initial_size
Stable(a, b) == a = b

\* file_path.stat().st_size: the size becomes the last observation; gap is
\* the time slept since the observation before it.
Observe(st, size) ==
    [st EXCEPT !.previous = st.last, !.last = size,
               !.seen = IF st.seen < 2 THEN st.seen + 1 ELSE 2,
               !.gap = st.slept, !.slept = 0]

\* stat() on a path that is gone raises FileNotFoundError; neither the
\* function nor on_created catches it.
StatRaises(st) == [st EXCEPT !.pc = "done", !.result = "raised"]

wait_for_file_stability(st, file) ==
    CASE st.pc = "exists" ->
            IF ~file.exists THEN [st EXCEPT !.pc = "done", !.result = "false"]
            ELSE [st EXCEPT !.pc = "stat"]
      [] ~file.exists -> StatRaises(st)
      [] st.pc = "stat" ->
            [Observe(st, file.size) EXCEPT !.pc = "loop",
                                           !.initial_size = file.size,
                                           !.slept = POLLING_INTERVAL]
      [] st.pc = "loop" ->
            IF Stable(file.size, st.initial_size)
            THEN [Observe(st, file.size) EXCEPT !.pc = "confirm",
                                                !.slept = CONFIRMATION_DELAY]
            ELSE [Observe(st, file.size) EXCEPT !.initial_size = file.size,
                                                !.slept = POLLING_INTERVAL]
      [] OTHER ->
            IF Stable(file.size, st.initial_size)
            THEN [Observe(st, file.size) EXCEPT !.pc = "done", !.result = "true"]
            ELSE [Observe(st, file.size) EXCEPT !.pc = "loop",
                                                !.initial_size = file.size]

\* on_created is called for a file dropped into the Inbox, which may be
\* gone again before the callback runs.
InitStab ==
    /\ InitLoops
    /\ vault = EmptyVault
    /\ wait = NoWait
    /\ approvalFile = "pending"
    /\ stab = [NoStab EXCEPT !.pc = "exists"]
    /\ \E e \in BOOLEAN : inbox = [exists |-> e, size |-> 0]

StabStep ==
    /\ stab.pc \in {"exists", "stat", "loop", "confirm"}
    /\ stab' = wait_for_file_stability(stab, inbox)
    /\ UNCHANGED <<vaultVars, odooVars, reloc, shut, watch, norm, parse, social, wait, approvalFile, inbox>>

\* The writer of the file appends to it, truncates it or rewrites it.
WriterWrites(size) ==
    /\ stab.pc \in {"exists", "stat", "loop", "confirm"}
    /\ inbox.exists
    /\ size # inbox.size
    /\ inbox' = [inbox EXCEPT !.size = size]
    /\ UNCHANGED <<vaultVars, odooVars, reloc, shut, watch, norm, parse, social, wait, approvalFile, stab>>

\* The file is removed or renamed away while the detector is running.
WriterRemoves ==
    /\ stab.pc \in {"exists", "stat", "loop", "confirm"}
    /\ inbox.exists
    /\ inbox' = [inbox EXCEPT !.exists = FALSE]
    /\ UNCHANGED <<vaultVars, odooVars, reloc, shut, watch, norm, parse, social, wait, approvalFile, stab>>

StabNext ==
    \/ StabStep
    \/ \E size \in 0..MaxSize : WriterWrites(size)
    \/ WriterRemoves

SpecStab == InitStab /\ [][StabNext]_vars

(***************************************************************************)
(* Both waiting loops running, each in a thread that is scheduled again    *)
(* and again.                                                              *)
(***************************************************************************)
InitPolls ==
    /\ InitLoops
    /\ vault = EmptyVault
    /\ wait = [NoWait EXCEPT !.pc = "loop", !.timeout_seconds = MaxTimeout]
    /\ approvalFile = "pending"
    /\ stab = [NoStab EXCEPT !.pc = "exists"]
    /\ inbox = [exists |-> TRUE, size |-> 0]

PollsNext == WaitNext \/ StabNext

SpecPolls ==
    /\ InitPolls
    /\ [][PollsNext]_vars
    /\ WF_vars(WaitPoll)
    /\ WF_vars(WaitSleep)
    /\ WF_vars(StabStep)

(***************************************************************************)
(* Relocation of files between the directories of the vault.  Every file   *)
(* handed to a relocation function is issued with a content of its own, so *)
(* that a file is told from another one of the same name.                  *)
(***************************************************************************)
MoveContents == {"c1", "c2", "c3"}

Platforms == {"posix", "windows"}

\* f"{stem}_{timestamp}{suffix}"
Suffixed(n, ts) == [n EXCEPT !.stem = @ \o <<ToString(ts)>>]

\* f"POSTED_{original_path.stem}_{timestamp}.md"
Posted(n, ts) == Name("POSTED", ts, n.stem)

\* Path.rename: on POSIX a file at the destination is replaced, on Windows
\* FileExistsError is raised.  shutil.move replaces it on both.
rename(v, sd, sn, dd, dn, platform) ==
    IF Exists(v, dd, dn) /\ platform = "windows"
    THEN [ok |-> FALSE, vault |-> v, dest |-> dn]
    ELSE [ok |-> TRUE, dest |-> dn,
          vault |-> WriteFile(RemoveFile(v, sd, sn), dd, dn, ReadFile(v, sd, sn))]

\* The destination name is checked once; the name with the timestamp is
\* not checked again.
move_file_with_timestamp(v, sd, sn, dd, ts, platform) ==
    rename(v, sd, sn, dd, IF Exists(v, dd, sn) THEN Suffixed(sn, ts) ELSE sn, platform)

\* move_to_done with preserve_original=False; an exception of rename is
\* caught and reported as success False.
move_to_done(v, sd, sn, dd, ts, platform) ==
    rename(v, sd, sn, dd, IF Exists(v, dd, sn) THEN Suffixed(sn, ts) ELSE sn, platform)

\* FileManagerSkill.move_file with a directory as destination.
file_manager_move_file(v, sd, sn, dd, ts, overwrite) ==
    IF Exists(v, dd, sn) /\ overwrite
    THEN rename(RemoveFile(v, dd, sn), sd, sn, dd, sn, "posix")
    ELSE rename(v, sd, sn, dd, IF Exists(v, dd, sn) THEN Suffixed(sn, ts) ELSE sn, "posix")

InitMove ==
    /\ InitLoops
    /\ InitPollVars
    /\ vault = EmptyVault

\* A file of the same name as the ones before it is put into a directory a
\* relocation starts from.
Drop(c, d) ==
    /\ c \notin reloc.issued
    /\ ~Exists(vault, d, TaskName(StemA))
    /\ reloc.archiving = NoName
    /\ vault' = WriteFile(vault, d, TaskName(StemA), <<c>>)
    /\ reloc' = [reloc EXCEPT !.issued = @ \cup {c}]
    /\ UNCHANGED <<clock, events, pc, todo, cur, queue, dispatched, redispatched,
                   planWrites, lastProc, fellBack, odooVars, pollVars, shut, watch, norm, parse, social>>

\* One call of a relocation function on the file sn of sd, and what is
\* recorded of it.
Moved(op, sd, sn, dd, overwrite, r) ==
    /\ vault' = r.vault
    /\ reloc' = [reloc EXCEPT
          !.removed = @ \cup (IF overwrite
                               THEN {f.content[1] : f \in vault[dd] \ r.vault[dd]}
                               ELSE {}),
          !.last = [op |-> op, ok |-> r.ok, overwrite |-> overwrite,
                    collision |-> Exists(vault, dd, sn), sn |-> sn, dn |-> r.dest,
                    ts |-> clock,
                    clobbered |-> vault[dd] \ r.vault[dd],
                    source_kept |-> vault[sd] \subseteq r.vault[sd],
                    source |-> Exists(vault, sd, sn),
                    unchanged |-> r.vault = vault]]
    /\ UNCHANGED <<clock, events, pc, todo, cur, queue, dispatched, redispatched,
                   planWrites, lastProc, fellBack, odooVars, pollVars, shut, watch, norm, parse, social>>

\* InboxHandler.on_created: the stable file goes from the Inbox to Needs_Action.
MoveWithTimestamp(platform) ==
    /\ Exists(vault, "Inbox", TaskName(StemA))
    /\ Moved("move_file_with_timestamp", "Inbox", TaskName(StemA), "Needs_Action", FALSE,
             move_file_with_timestamp(vault, "Inbox", TaskName(StemA), "Needs_Action",
                                      clock, platform))

MoveToDone(platform) ==
    /\ Exists(vault, "Needs_Action", TaskName(StemA))
    /\ Moved("move_to_done", "Needs_Action", TaskName(StemA), "Done", FALSE,
             move_to_done(vault, "Needs_Action", TaskName(StemA), "Done", clock, platform))

FileManagerMove(overwrite) ==
    /\ Exists(vault, "Needs_Action", TaskName(StemA))
    /\ Moved("FileManagerSkill.move_file", "Needs_Action", TaskName(StemA), "Done", overwrite,
             file_manager_move_file(vault, "Needs_Action", TaskName(StemA), "Done",
                                    clock, overwrite))

\* helpers.move_file, as process_tasks and the ActionRunner call it.
HelperMove(overwrite) ==
    Moved("move_file", "Needs_Action", TaskName(StemA), "Done", overwrite,
             move_file(vault, "Needs_Action", TaskName(StemA), "Done", TaskName(StemA),
                       overwrite) @@ [dest |-> TaskName(StemA)])

\* _archive_executed_post up to the write of the archive file.
ArchiveWrite ==
    /\ reloc.archiving = NoName
    /\ Exists(vault, "Approved", TaskName(StemA))
    /\ vault' = WriteFile(vault, "Executed", Posted(TaskName(StemA), clock),
                          Append(ReadFile(vault, "Approved", TaskName(StemA)),
                                 "Execution Result"))
    /\ reloc' = [reloc EXCEPT !.archiving = TaskName(StemA)]
    /\ UNCHANGED <<clock, events, pc, todo, cur, queue, dispatched, redispatched,
                   planWrites, lastProc, fellBack, odooVars, pollVars, shut, watch, norm, parse, social>>

\* original_path.unlink(); when it raises, execute_approved_post reports
\* success False.
ArchiveUnlink(io) ==
    /\ reloc.archiving # NoName
    /\ reloc' = [reloc EXCEPT !.archiving = NoName]
    /\ vault' = IF io = "ok" THEN RemoveFile(vault, "Approved", reloc.archiving)
                ELSE vault
    /\ UNCHANGED <<clock, events, pc, todo, cur, queue, dispatched, redispatched,
                   planWrites, lastProc, fellBack, odooVars, pollVars, shut, watch, norm, parse, social>>

MoveNext ==
    \/ Tick
    \/ \E c \in MoveContents, d \in {"Inbox", "Needs_Action", "Approved"} : Drop(c, d)
    \/ \E platform \in Platforms : MoveWithTimestamp(platform)
    \/ \E platform \in Platforms : MoveToDone(platform)
    \/ \E overwrite \in BOOLEAN : FileManagerMove(overwrite)
    \/ \E overwrite \in BOOLEAN : HelperMove(overwrite)
    \/ ArchiveWrite
    \/ \E io \in IoResults : ArchiveUnlink(io)

SpecMove == InitMove /\ [][MoveNext]_vars

(***************************************************************************)
(* The audit log of one AccountingOdooSkill instance over a long run: one  *)
(* record per second, of operations, outcomes and result lengths that      *)
(* change from one record to the next.                                     *)
(***************************************************************************)
ResultLens == <<0, 499, 500, 501, 2000>>

InitAudit ==
    /\ InitLoops
    /\ InitPollVars
    /\ vault = EmptyVault

RecordAudit ==
    /\ clock < MaxRecords
    /\ auditLog' = Trim(Append(auditLog,
                        AuditEntry(clock,
                                   IF clock % 3 = 0 THEN "create_invoice"
                                   ELSE IF clock % 3 = 1 THEN "get_total_revenue"
                                   ELSE "get_partner_info",
                                   clock % 2 = 0,
                                   ResultLens[(clock % 5) + 1])))
    /\ clock' = clock + 1
    /\ UNCHANGED <<vault, events, pc, todo, cur, queue, dispatched, redispatched,
                   planWrites, lastProc, fellBack, skill, mcpMode, lastCall,
                   pollVars, reloc, shut, watch, norm, parse, social>>

SpecAudit == InitAudit /\ [][RecordAudit]_vars

(***************************************************************************)
(* Shutdown of the application: GmailReasoningLoop.start, stop and run     *)
(* (main.py 134-197) and the four loops that start() creates.              *)
(***************************************************************************)

JOIN_TIMEOUT == 5
PLAN_SLEEP == 30
RUNNER_SLEEP == 10
KEEPALIVE_SLEEP == 1
MIN_POLL_INTERVAL == 30

\* The running flag that the loop of thread t tests at its loop-top.
Flag(t) ==
    IF t = "GmailWatcher" THEN "gmail"
    ELSE IF t = "ActionRunner" THEN "runner" ELSE "app"

\* GmailWatcher.run and ActionRunner.run set their own flag when they begin.
SetsOwnFlag(t) == t \in {"GmailWatcher", "ActionRunner"}

\* Seconds the loop of thread t sleeps after a pass (the least, for Gmail).
SleepSeconds(t) ==
    IF t = "GmailWatcher" THEN MIN_POLL_INTERVAL
    ELSE IF t = "PlanGeneration" THEN PLAN_SLEEP
    ELSE IF t = "ActionRunner" THEN RUNNER_SLEEP ELSE KEEPALIVE_SLEEP

\* The loops whose pass does work, and those whose pass relocates files.
Works(t) == t # "FileSystemWatcher"

Relocates(t) == t \in {"PlanGeneration", "ActionRunner"}

\* Thread t at position pos can stay there for longer than one join waits.
Outlasts(t, pos) ==
    \/ pos \in {"pass", "relocating"}
    \/ pos = "sleep" /\ SleepSeconds(t) >= JOIN_TIMEOUT

InitStop ==
    /\ InitLoops
    /\ InitPollVars
    /\ vault = EmptyVault

\* start(): the application flag is set and the four daemon threads started.
StartApp ==
    /\ shut.main = "idle"
    /\ shut' = [shut EXCEPT !.main = "serving", !.running.app = TRUE,
                            !.loops = [t \in ThreadNames |-> "started"]]
    /\ UNCHANGED <<vaultVars, odooVars, pollVars, reloc, watch, norm, parse, social>>

\* The target of thread t begins: GmailWatcher.run and ActionRunner.run set
\* their running flag before the first test of it.
LoopEnter(t) ==
    /\ shut.main \notin {"idle", "exited"}
    /\ shut.loops[t] = "started"
    /\ shut' = [shut EXCEPT !.loops[t] = "top",
                            !.running[Flag(t)] = IF SetsOwnFlag(t) THEN TRUE ELSE @]
    /\ UNCHANGED <<vaultVars, odooVars, pollVars, reloc, watch, norm, parse, social>>

\* The loop-top of thread t: `while self.running`.
LoopTop(t) ==
    /\ shut.main # "exited"
    /\ shut.loops[t] = "top"
    /\ shut' = [shut EXCEPT !.loops[t] =
                   IF ~shut.running[Flag(t)] THEN "exited"
                   ELSE IF Works(t) THEN "pass" ELSE "sleep"]
    /\ UNCHANGED <<vaultVars, odooVars, pollVars, reloc, watch, norm, parse, social>>

\* The pass of thread t (poll_once, run_once): it reaches a relocation, whose
\* copy is written before its source is removed, or it ends and the loop sleeps.
LoopPass(t) ==
    /\ shut.main # "exited"
    /\ shut.loops[t] = "pass"
    /\ \E to \in {"sleep"} \cup (IF Relocates(t) THEN {"relocating"} ELSE {}) :
          shut' = [shut EXCEPT !.loops[t] = to]
    /\ UNCHANGED <<vaultVars, odooVars, pollVars, reloc, watch, norm, parse, social>>

\* The relocation of thread t is completed and its pass goes on.
LoopRelocated(t) ==
    /\ shut.main # "exited"
    /\ shut.loops[t] = "relocating"
    /\ shut' = [shut EXCEPT !.loops[t] = "pass"]
    /\ UNCHANGED <<vaultVars, odooVars, pollVars, reloc, watch, norm, parse, social>>

\* The sleep of thread t is over.
LoopWake(t) ==
    /\ shut.main # "exited"
    /\ shut.loops[t] = "sleep"
    /\ shut' = [shut EXCEPT !.loops[t] = "top"]
    /\ UNCHANGED <<vaultVars, odooVars, pollVars, reloc, watch, norm, parse, social>>

\* stop(), up to its joins: the three running flags are set to False.
StopFlags ==
    /\ shut.main = "serving"
    /\ shut' = [shut EXCEPT !.main = "joining", !.next = 1,
                            !.running = [app |-> FALSE, gmail |-> FALSE, runner |-> FALSE]]
    /\ UNCHANGED <<vaultVars, odooVars, pollVars, reloc, watch, norm, parse, social>>

\* thread.join(timeout=5) on the next thread returns because it has ended.
JoinReturns ==
    /\ shut.main = "joining"
    /\ shut.loops[Threads[shut.next]] = "exited"
    /\ shut' = [shut EXCEPT !.next = @ + 1,
                            !.main = IF shut.next = Len(Threads) THEN "stopped" ELSE @]
    /\ UNCHANGED <<vaultVars, odooVars, pollVars, reloc, watch, norm, parse, social>>

\* thread.join(timeout=5) on the next thread times out: the thread is alive
\* and is logged as not having stopped gracefully.
JoinTimesOut ==
    /\ shut.main = "joining"
    /\ Outlasts(Threads[shut.next], shut.loops[Threads[shut.next]])
    /\ shut' = [shut EXCEPT !.next = @ + 1,
                            !.logged = @ \cup {Threads[shut.next]},
                            !.main = IF shut.next = Len(Threads) THEN "stopped" ELSE @]
    /\ UNCHANGED <<vaultVars, odooVars, pollVars, reloc, watch, norm, parse, social>>

\* What the end of the process does to a daemon thread at position pos.
AtExit(pos) == IF pos = "exited" THEN "exited" ELSE "killed"

\* sys.exit(0) after stop(): the main thread ends, and with it the process
\* and every daemon thread that is still alive, wherever it is.
ExitProcess ==
    /\ shut.main = "stopped"
    /\ shut' = [shut EXCEPT !.main = "exited",
                            !.loops = [t \in ThreadNames |-> AtExit(shut.loops[t])],
                            !.killed = [t \in ThreadNames |->
                                           IF shut.loops[t] = "exited" THEN "" ELSE shut.loops[t]]]
    /\ UNCHANGED <<vaultVars, odooVars, pollVars, reloc, watch, norm, parse, social>>

StopNext ==
    \/ StartApp
    \/ \E t \in ThreadNames : LoopEnter(t)
    \/ \E t \in ThreadNames : LoopTop(t)
    \/ \E t \in ThreadNames : LoopPass(t)
    \/ \E t \in ThreadNames : LoopRelocated(t)
    \/ \E t \in ThreadNames : LoopWake(t)
    \/ StopFlags
    \/ JoinReturns
    \/ JoinTimesOut
    \/ ExitProcess

SpecStop == InitStop /\ [][StopNext]_vars

(***************************************************************************)
(* The event handler of the directory watcher: FileSystemEventLogger       *)
(* (filesystem/watcher.py 41-96). The file an event names is `inbox`.      *)
(***************************************************************************)

MaxEvents == 2

EventTypes == {"created", "modified", "deleted", "moved"}

\* The directory the path of an event lies in (the destination, for a move).
EventParts == {"Inbox", "Needs_Action", "Plans", "Pending_Approval", "Done"}

WatchEvents ==
    [type : EventTypes, is_directory : BOOLEAN, part : EventParts]

RestrictedParts == {"Plans", "Pending_Approval", "Done"}

\* on_created up to its grace sleep: what it does with the event.
on_created(ev) ==
    IF ev.is_directory THEN "ignored"
    ELSE IF ev.part \in RestrictedParts THEN "restricted" ELSE "sleep"

\* on_moved up to its grace sleep, on the destination path.
on_moved(ev) ==
    IF ev.is_directory THEN "ignored"
    ELSE IF ev.part \in RestrictedParts THEN "restricted" ELSE "sleep"

\* A handler that treated a modification as it treats a creation.
on_modified_forwarding(ev) == on_created(ev)

on_modified(ev) == "ignored"

on_deleted(ev) == "ignored"

\* FileSystemEventHandler.dispatch: the method of the event's type.
HandlerOf(ev) ==
    CASE ev.type = "created" -> on_created(ev)
      [] ev.type = "moved" -> on_moved(ev)
      [] ev.type = "modified" -> on_modified(ev)
      [] ev.type = "deleted" -> on_deleted(ev)

InitWatch ==
    /\ InitLoops
    /\ InitPollVars
    /\ vault = EmptyVault

\* The observer hands one event to the handler, which returns at once or
\* enters its grace sleep.
DispatchEvent(ev) ==
    /\ watch.alive
    /\ watch.pc = "idle"
    /\ watch.dispatched < MaxEvents
    /\ watch' = [watch EXCEPT !.event = ev, !.dispatched = @ + 1,
                              !.outcome = IF HandlerOf(ev) = "sleep" THEN "" ELSE HandlerOf(ev),
                              !.pc = IF HandlerOf(ev) = "sleep" THEN "sleeping" ELSE "idle"]
    /\ UNCHANGED <<vaultVars, odooVars, pollVars, reloc, shut, norm, parse, social>>

\* After time.sleep(1): file_path.exists().
GraceOver ==
    /\ watch.pc = "sleeping"
    /\ watch' = [watch EXCEPT !.pc = IF inbox.exists THEN "stat" ELSE "idle",
                              !.outcome = IF inbox.exists THEN "" ELSE "skipped"]
    /\ UNCHANGED <<vaultVars, odooVars, pollVars, reloc, shut, norm, parse, social>>

\* file_path.stat().st_size > 0, and the callback. stat() raises when the
\* file has gone since exists(); nothing in the handler catches it, and the
\* thread that dispatches events may or may not survive it.
StatAndForward ==
    /\ watch.pc = "stat"
    /\ \E survives \in BOOLEAN :
          watch' = [watch EXCEPT
             !.pc = "idle",
             !.outcome = IF ~inbox.exists THEN "raised"
                         ELSE IF inbox.size > 0 THEN "forwarded" ELSE "skipped",
             !.alive = IF ~inbox.exists THEN survives ELSE @,
             !.calls = IF inbox.exists /\ inbox.size > 0
                       THEN Append(@, [type |-> watch.event.type,
                                       is_directory |-> watch.event.is_directory,
                                       part |-> watch.event.part,
                                       exists |-> inbox.exists, size |-> inbox.size])
                       ELSE @]
    /\ UNCHANGED <<vaultVars, odooVars, pollVars, reloc, shut, norm, parse, social>>

\* Another process writes the file the event names, or removes it.
PathWritten(size) ==
    /\ watch.alive
    /\ inbox # [exists |-> TRUE, size |-> size]
    /\ inbox' = [exists |-> TRUE, size |-> size]
    /\ UNCHANGED <<vaultVars, odooVars, reloc, shut, watch, norm, parse, social, wait, approvalFile, stab>>

PathRemoved ==
    /\ watch.alive
    /\ inbox.exists
    /\ inbox' = [inbox EXCEPT !.exists = FALSE]
    /\ UNCHANGED <<vaultVars, odooVars, reloc, shut, watch, norm, parse, social, wait, approvalFile, stab>>

WatchNext ==
    \/ \E ev \in WatchEvents : DispatchEvent(ev)
    \/ GraceOver
    \/ StatAndForward
    \/ \E size \in 0..MaxSize : PathWritten(size)
    \/ PathRemoved

SpecWatch == InitWatch /\ [][WatchNext]_vars

(***************************************************************************)
(* The argument normalization of _execute_odoo_action (action_runner.py    *)
(* 511-531) on whole dictionaries, keys and values.                        *)
(***************************************************************************)

ArgKeys ==
    {"customer", "client", "client_name", "cost", "amount", "memo", "require_approval"}

ArgValues == {"u", "v"}

\* The dictionaries literal_eval can hand over: any keys, any values.
ArgDicts == UNION {[ks -> ArgValues] : ks \in SUBSET ArgKeys}

\* A loop that renamed every synonym it finds, whatever is there already.
RECURSIVE RenameOverwriting(_, _)
RenameOverwriting(d, i) ==
    IF i > Len(ArgMapping) THEN d
    ELSE IF ArgMapping[i][1] \in DOMAIN d
         THEN RenameOverwriting(Put(Pop(d, ArgMapping[i][1]), ArgMapping[i][2],
                                    d[ArgMapping[i][1]]), i + 1)
         ELSE RenameOverwriting(d, i + 1)

\* for old_key, new_key in arg_mapping.items(), from the i-th pair on.
RECURSIVE RenameFrom(_, _)
RenameFrom(d, i) ==
    IF i > Len(ArgMapping) THEN d
    ELSE IF ArgMapping[i][1] \in DOMAIN d /\ ArgMapping[i][2] \notin DOMAIN d
         THEN RenameFrom(Put(Pop(d, ArgMapping[i][1]), ArgMapping[i][2],
                             d[ArgMapping[i][1]]), i + 1)
         ELSE RenameFrom(d, i + 1)

\* mapped_arguments = dict(arguments), then the loop.
mapped_arguments(arguments) == RenameFrom(arguments, 1)

\* The synonyms, and the canonical key of one.
Synonyms == {ArgMapping[i][1] : i \in 1..Len(ArgMapping)}

Canonical(key) == ArgMapping[CHOOSE i \in 1..Len(ArgMapping) : ArgMapping[i][1] = key][2]

InitArgs ==
    /\ InitLoops
    /\ InitPollVars
    /\ vault = EmptyVault

\* The "Tool Arguments:" of an approved file are parsed into a dictionary.
ArgumentsParsed(d) ==
    /\ norm.pc = "idle"
    /\ norm' = [norm EXCEPT !.pc = "parsed", !.arguments = d]
    /\ UNCHANGED <<vaultVars, odooVars, pollVars, reloc, shut, watch, parse, social>>

\* _execute_odoo_action normalizes them.
Normalize ==
    /\ norm.pc = "parsed"
    /\ norm' = [norm EXCEPT !.pc = "once", !.once = mapped_arguments(norm.arguments)]
    /\ UNCHANGED <<vaultVars, odooVars, pollVars, reloc, shut, watch, parse, social>>

\* The normalized dictionary is normalized again.
NormalizeAgain ==
    /\ norm.pc = "once"
    /\ norm' = [norm EXCEPT !.pc = "twice", !.twice = mapped_arguments(norm.once)]
    /\ UNCHANGED <<vaultVars, odooVars, pollVars, reloc, shut, watch, parse, social>>

ArgsNext ==
    \/ \E d \in ArgDicts : ArgumentsParsed(d)
    \/ Normalize
    \/ NormalizeAgain

SpecArgs == InitArgs /\ [][ArgsNext]_vars

(***************************************************************************)
(* parse_action_file and execute_action on action files made of a header   *)
(* block, a blank line and free text (action_runner.py 191-324).           *)
(***************************************************************************)

MaxBody == 3

HeaderBlock ==
    <<F("type", "email_send"), F("to", "a@example.com"), F("subject", "Hi")>>

\* The lines free text is made of: a plain line, a blank line, and a line
\* that holds a colon ("Note: call me").
FreeLines == {T("Hello"), Blank, F("Note", "call me")}

FreeTexts == UNION {[1..n -> FreeLines] : n \in 0..MaxBody}

ActionFile(free) == HeaderBlock \o <<Blank>> \o free

InitParse ==
    /\ InitLoops
    /\ InitPollVars
    /\ vault = EmptyVault

\* An action file with the free text `free` is in Approved.
FileApproved(free) ==
    /\ parse.pc = "idle"
    /\ parse' = [parse EXCEPT !.pc = "approved", !.free = free]
    /\ UNCHANGED <<vaultVars, odooVars, pollVars, reloc, shut, watch, norm, social>>

\* Lines 616-626 of process_approved_file: nothing parsed is a return, a
\* value that is no dictionary makes execute_action raise on action_data.get.
OutcomeOf(action_data) ==
    CASE action_data.kind \in {"none", "empty"} -> "unparsed"
      [] action_data.kind = "scalar" -> "raised"
      [] OTHER -> "executed"

\* What execute_action does with the value parse_action_file returned.
Dispatch(action_data, content, env) ==
    IF action_data.kind = "map" THEN execute_action(action_data.map, content, env)
    ELSE Exec(FALSE, "none", "none")

\* process_approved_file parses the file and executes its action.
ParseAndExecute ==
    /\ parse.pc = "approved"
    /\ \E env \in RunnerEnvs("email_send") :
          LET action_data == parse_action_file(TRUE, ActionFile(parse.free)) IN
          parse' = [parse EXCEPT
             !.pc = "done",
             !.action_data = action_data,
             !.outcome = OutcomeOf(action_data),
             !.collab = Dispatch(action_data, ActionFile(parse.free), env).collab,
             !.ret = Dispatch(action_data, ActionFile(parse.free), env).ret]
    /\ UNCHANGED <<vaultVars, odooVars, pollVars, reloc, shut, watch, norm, social>>

ParseNext ==
    \/ \E free \in FreeTexts : FileApproved(free)
    \/ ParseAndExecute

SpecParse == InitParse /\ [][ParseNext]_vars

(***************************************************************************)
(* parse_action_file on files written line by line: field lines, plain     *)
(* lines and blank lines in any order (action_runner.py 203-297).          *)
(***************************************************************************)

MaxLines == 4

FileLines ==
    {F("type", "email_send"), F("to", "a@example.com"), F("subject", "Hi"),
     F("body", "first"),
     F("Note", "call me"), T("second"), Blank}

LineFiles == UNION {[1..n -> FileLines] : n \in 1..MaxLines}

\* An action file with these lines is in Approved.
LinesApproved(content) ==
    /\ parse.pc = "idle"
    /\ parse' = [parse EXCEPT !.pc = "lines", !.free = content]
    /\ UNCHANGED <<vaultVars, odooVars, pollVars, reloc, shut, watch, norm, social>>

\* process_approved_file parses the file and executes its action.
ParseLines ==
    /\ parse.pc = "lines"
    /\ \E env \in RunnerEnvs("email_send") :
          LET action_data == parse_action_file(TRUE, parse.free) IN
          parse' = [parse EXCEPT
             !.pc = "parsed",
             !.action_data = action_data,
             !.outcome = OutcomeOf(action_data),
             !.collab = Dispatch(action_data, parse.free, env).collab,
             !.ret = Dispatch(action_data, parse.free, env).ret]
    /\ UNCHANGED <<vaultVars, odooVars, pollVars, reloc, shut, watch, norm, social>>

LinesNext ==
    \/ \E content \in LineFiles : LinesApproved(content)
    \/ ParseLines

SpecLines == InitParse /\ [][LinesNext]_vars

(***************************************************************************)
(* Tool-call files: an approval_request header and a Tool Arguments block  *)
(* in the shapes a writer may give it (action_runner.py 405-486).          *)
(***************************************************************************)

\* Well formed, with a key missing, cut short, written on the line of
\* "Tool Arguments:" itself, and absent.
ArgumentBlocks ==
    {<<F("Tool Arguments", ""), T(ArgsOk)>>,
     <<F("Tool Arguments", ""), T(ArgsMissing)>>,
     <<F("Tool Arguments", ""), T(ArgsMalformed)>>,
     <<F("Tool Arguments", ArgsMissing)>>,
     <<>>}

\* The tool and the operation a file names; "" when the line is left out.
ToolNames == {"AccountingOdooSkill", "UnknownSkill", ""}

OperationNames == OdooMethods \cup {"delete_everything", ""}

HeaderLine(key, value) == IF value = "" THEN <<>> ELSE <<F(key, value)>>

ToolFile(tool, action, block) ==
    <<F("type", "approval_request")>> \o HeaderLine("tool", tool)
        \o HeaderLine("action", action) \o block

ToolFiles ==
    {ToolFile(t, a, b) : t \in ToolNames, a \in OperationNames, b \in ArgumentBlocks}

\* A tool-call file is in Approved.
ToolFileApproved(content) ==
    /\ parse.pc = "idle"
    /\ parse' = [parse EXCEPT !.pc = "tool", !.free = content]
    /\ UNCHANGED <<vaultVars, odooVars, pollVars, reloc, shut, watch, norm, social>>

\* process_approved_file parses the file and executes its tool call.
ExecuteTool ==
    /\ parse.pc = "tool"
    /\ \E env \in RunnerEnvs("approval_request") :
          LET action_data == parse_action_file(TRUE, parse.free) IN
          parse' = [parse EXCEPT
             !.pc = "called",
             !.action_data = action_data,
             !.outcome = OutcomeOf(action_data),
             !.collab = Dispatch(action_data, parse.free, env).collab,
             !.ret = Dispatch(action_data, parse.free, env).ret,
             !.odoo = Dispatch(action_data, parse.free, env).odoo,
             !.events = Dispatch(action_data, parse.free, env).events]
    /\ UNCHANGED <<vaultVars, odooVars, pollVars, reloc, shut, watch, norm, social>>

ToolNext ==
    \/ \E content \in ToolFiles : ToolFileApproved(content)
    \/ ExecuteTool

SpecTool == InitParse /\ [][ToolNext]_vars

\* Files of both kinds.
FilesNext == LinesNext \/ ToolNext

SpecFiles == InitParse /\ [][FilesNext]_vars

(***************************************************************************)
(* Properties.                                                             *)
(***************************************************************************)
KnownTypes == {"email_send", "linkedin_post", "approval_request"}

Count(seq, set) == Cardinality({i \in 1..Len(seq) : seq[i] \in set})

\* C1: whenever process_approved_file has executed the action of a file found
\* in Approved, the file has been moved to Done and is no longer in Approved
\* when the call finishes, whatever the result of the action and whatever
\* Done held before.
C1_MovedToDone ==
    (lastProc.present /\ lastProc.outcome = "executed")
        => (lastProc.moved /\ ~lastProc.stillApproved)

\* C2: a failed action is not retried: no file is dispatched to a collaborator
\* a second time unless it was put into Approved again in between.
C2_NoRedispatch == redispatched = {}

\* C3: the ActionRunner handles, and dispatches to a collaborator, only files
\* that its scan found in the Approved directory; a file still in
\* Pending_Approval is never listed or dispatched.
C3_OnlyApprovedDispatched ==
    /\ \A path \in queue : path.dir = "Approved"
    /\ lastProc.collab # "none" => (lastProc.path.dir = "Approved" /\ lastProc.present)

\* C3 witness: an action was dispatched while another artifact still awaits
\* the human in Pending_Approval.
C3_Witness ==
    /\ lastProc.collab # "none"
    /\ lastProc.path.dir = "Approved"
    /\ vault["Pending_Approval"] # {}

\* C4: for every dedup key (the stem of the task file) there is at most one
\* Plan artifact in Plans, over any number of watcher events and periodic
\* plan-generation cycles.
C4_OnePlanPerKey ==
    \A s \in Stems :
        Cardinality({f \in vault["Plans"] : f.name.stem = sanitize_filename(s)}) <= 1

\* C5: two producers never both claim the same task file: at most one of the
\* watcher-started thread and the periodic loop creates the plan of the task
\* file that is in Needs_Action.
C5_OneClaimant == \A s \in Stems : Cardinality(planWrites[s]) <= 1

\* C6: when the approved file cannot be parsed into an action (nothing, or a
\* value that is not a mapping), the file is still relocated and not left in
\* Approved.
C6_UnparsedRelocated ==
    (lastProc.present /\ lastProc.outcome \in {"unparsed", "raised"})
        => ~lastProc.stillApproved

\* C7: an approved file whose type is not a recognized action type is
\* rejected (execute_action returns False) without invoking a collaborator,
\* and the file is still relocated to Done.
C7_UnknownTypeRejected ==
    (lastProc.present /\ lastProc.outcome = "executed" /\ lastProc.type \notin KnownTypes)
        => (~lastProc.ret /\ lastProc.collab = "none"
            /\ lastProc.moved /\ ~lastProc.stillApproved)

\* C8: with an MCP channel that always times out, every operation called on
\* an instance whose sticky fallback flag is set contacts the direct channel
\* exactly once and the MCP channel not at all (a call the approval manager
\* turned down contacts no channel and is left aside).
C8_StickyFallback ==
    (/\ mcpMode = "timeout"
     /\ lastCall.before.use_fallback
     /\ lastCall.op \in OdooMethods
     /\ lastCall.error # "not approved")
        => /\ Count(lastCall.events, {"direct_connect", "direct_call"}) = 1
           /\ Count(lastCall.events, {"mcp_connect", "mcp_call"}) = 0

\* C9: connect contacts the MCP channel first and the direct channel only
\* right after an MCP attempt that timed out, returned non-success or raised;
\* when the MCP attempt succeeds the direct channel is not contacted and the
\* fallback flag is left as it was.
C9_McpFirst ==
    /\ \A i \in 1..Len(lastCall.events) :
          lastCall.events[i] = "direct_connect"
              => (i > 1 /\ lastCall.events[i - 1] = "mcp_connect" /\ lastCall.mcp # "ok")
    /\ lastCall.op = "connect"
          => IF lastCall.mcp = "ok"
             THEN /\ lastCall.events = <<"mcp_connect">>
                  /\ skill.use_fallback = lastCall.before.use_fallback
                  /\ skill.direct_client = lastCall.before.direct_client
             ELSE lastCall.events = <<"mcp_connect", "direct_connect">>

\* C9 witness: a connect whose MCP attempt timed out went on to the direct
\* channel and set the fallback flag.
C9_Witness ==
    /\ lastCall.op = "connect"
    /\ lastCall.mcp = "timeout"
    /\ lastCall.events = <<"mcp_connect", "direct_connect">>
    /\ ~lastCall.before.use_fallback
    /\ skill.use_fallback

\* C10: when both the MCP channel and the direct channel fail, the Odoo
\* operation returns its connection failure and the ActionRunner reports the
\* action as failed: execute_action returns False.
C10_BothChannelsFail ==
    (lastProc.collab = "odoo" /\ lastProc.odoo = "Failed to connect") => ~lastProc.ret

\* C11: once an Odoo action run by the ActionRunner has fallen back to the
\* direct channel, no later Odoo action of the same ActionRunner attempts the
\* MCP channel again.
C11_StickyAcrossActions ==
    (lastProc.fellBack /\ lastProc.collab = "odoo")
        => "mcp_connect" \notin Range(lastProc.events)

\* C12: with require_approval set, create_invoice performs the invoice call
\* on a channel only when wait_for_approval found the request approved; a
\* rejection, a timeout or an approval file that never appears give a failure
\* result and no invoice call on either channel.
C12_ApprovalGate ==
    (lastCall.op = "create_invoice" /\ lastCall.require_approval)
        => /\ Range(lastCall.events) \cap {"mcp_call", "direct_call"} # {}
                => lastCall.approval = "approved"
           /\ lastCall.approval # "approved"
                => /\ ~lastCall.ok
                   /\ lastCall.error \in {"not approved", "Failed to connect"}

\* C12 witness: a connected skill whose approval request timed out refused
\* to create the invoice.
C12_Witness ==
    /\ lastCall.op = "create_invoice"
    /\ lastCall.require_approval
    /\ lastCall.approval = "timeout"
    /\ skill.connected
    /\ lastCall.error = "not approved"
    /\ Range(lastCall.events) \cap {"mcp_call", "direct_call"} = {}

\* C13: wait_for_approval never reads a clock at or beyond timeout_seconds
\* plus one poll interval, it sleeps only while the timeout has not been
\* reached, and the return taken when the timeout is reached is False,
\* whatever becomes of the approval file.
C13_WaitBounded ==
    /\ wait.elapsed < wait.timeout_seconds + POLL_SECONDS
    /\ wait.pc = "sleep" => wait.elapsed < wait.timeout_seconds
    /\ wait.timed_out => /\ wait.pc = "done"
                         /\ wait.result = "false"
                         /\ wait.elapsed >= wait.timeout_seconds

\* The call has polled past a timeout that is no multiple of the poll
\* interval and returned False while the file is missing.
C13_Witness ==
    /\ wait.timed_out
    /\ wait.result = "false"
    /\ wait.elapsed > wait.timeout_seconds
    /\ wait.timeout_seconds > POLL_SECONDS
    /\ approvalFile = "missing"

\* C14: while the approval request written for a task file is still in
\* Pending_Approval, the task file is not in Done.
C14_TaskAwaitsApproval ==
    \A s \in Stems :
        (\E f \in vault["Pending_Approval"] :
            /\ f.name.kind = "APPROVAL"
            /\ f.name.stem = sanitize_filename(s))
        => ~Exists(vault, "Done", TaskName(s))

\* C15: the step of a producer in which plan creation or approval-file
\* creation raises, and the handling of that exception, change nothing in
\* the vault, so the task file stays in Needs_Action; and a producer moves
\* a task file to Done only when an approval request is in Pending_Approval.
C15_NoArtifactNoAction ==
    [][\A p \in Producers :
         /\ (pc[p] # "raised" /\ pc'[p] = "raised") => vault' = vault
         /\ (pc[p] = "raised" /\ pc'[p] # "raised") => vault' = vault
         /\ (pc[p] = "move" /\ pc'[p] # "move" /\ vault'["Done"] # vault["Done"])
               => \E f \in vault["Pending_Approval"] :
                     \/ f.name.kind = "DRAFT_LINKEDIN_POST"
                     \/ /\ f.name.kind = "APPROVAL"
                        /\ f.name.stem = sanitize_filename(cur[p].stem)]_vars

\* Approval-file creation has raised after the plan was written: the task
\* file is in Needs_Action, not in Done, and nothing is in Pending_Approval.
C15_Witness ==
    \E p \in Producers :
        /\ pc[p] = "raised"
        /\ Exists(vault, "Needs_Action", cur[p])
        /\ ~Exists(vault, "Done", cur[p])
        /\ existing_plans(vault, cur[p].stem) # {}
        /\ vault["Pending_Approval"] = {}

\* C16: wait_for_file_stability returns True only when its last two
\* observations of the size are equal and the confirmation delay lies between
\* them; and when the last two observations differ, it has not returned True
\* and it goes on comparing against the size seen last.
C16_StableTwice ==
    /\ stab.result = "true" => /\ stab.seen = 2
                               /\ stab.previous = stab.last
                               /\ stab.gap = CONFIRMATION_DELAY
    /\ (stab.seen = 2 /\ stab.previous # stab.last)
          => /\ stab.result # "true"
             /\ stab.initial_size = stab.last

\* The detector has returned True for a file that had grown before, on two
\* equal observations of the size the file still has.
C16_Witness ==
    /\ stab.result = "true"
    /\ stab.gap = CONFIRMATION_DELAY
    /\ stab.previous = stab.last
    /\ stab.last = MaxSize
    /\ inbox.size = MaxSize

\* C17: wait_for_file_stability never ends by raising: when the file is
\* missing at the first check or removed while the detector is polling, the
\* call returns False.
C17_GoneReturnsFalse ==
    /\ stab.result # "raised"
    /\ (stab.pc = "done" /\ ~inbox.exists) => stab.result = "false"

\* C18: the stability-detector loop and the approval-polling loop each come
\* to an end, whatever the writer of the file and the human do.
C18_LoopsTerminate == <>(stab.pc = "done") /\ <>(wait.pc = "done")

\* The directories that hold a file issued with content c, or its archive.
Memberships(c) == {d \in Dirs : \E f \in vault[d] : f.content[1] = c}

\* C19: every file issued to the vault and not removed by a requested
\* overwrite is in exactly one directory in every state, and a relocation
\* that reports failure leaves the source directory as it was.
C19_OneMembership ==
    /\ \A c \in reloc.issued \ reloc.removed : Cardinality(Memberships(c)) = 1
    /\ (reloc.last.op # "" /\ ~reloc.last.ok) => reloc.last.source_kept

\* C20: a relocation without overwrite that meets a file of the same name in
\* the destination gives the moved file the name with the timestamp, and it
\* leaves every file that was in the destination in place.
C20_NoSilentOverwrite ==
    (reloc.last.op \in {"move_file_with_timestamp", "move_to_done",
                        "FileManagerSkill.move_file"}
       /\ ~reloc.last.overwrite)
    => /\ reloc.last.clobbered = {}
       /\ (reloc.last.collision /\ reloc.last.ok)
             => reloc.last.dn = Suffixed(reloc.last.sn, reloc.last.ts)

\* C21: move_file without overwrite on an existing destination returns False
\* and leaves every directory as it was, the source and the old destination
\* included; on a missing source it returns False and creates nothing.
C21_RefusedMoveChangesNothing ==
    (reloc.last.op = "move_file"
       /\ (~reloc.last.source \/ (reloc.last.collision /\ ~reloc.last.overwrite)))
    => /\ ~reloc.last.ok
       /\ reloc.last.unchanged
       /\ reloc.last.clobbered = {}
       /\ reloc.last.source_kept

\* move_file has refused a move onto an existing file of Done while the
\* source is in Needs_Action, and both files are where they were.
C21_Witness ==
    /\ reloc.last.op = "move_file"
    /\ reloc.last.source
    /\ reloc.last.collision
    /\ ~reloc.last.overwrite
    /\ ~reloc.last.ok
    /\ Exists(vault, "Needs_Action", TaskName(StemA))
    /\ Exists(vault, "Done", TaskName(StemA))
    /\ ReadFile(vault, "Needs_Action", TaskName(StemA))
          # ReadFile(vault, "Done", TaskName(StemA))

\* C22: every action the ActionRunner has executed has left exactly one
\* audit entry, which carries the type of the action and a success flag
\* equal to the value execute_action returned.
C22_OneAuditEntry ==
    lastProc.outcome = "executed"
    => /\ Len(lastProc.audit) = 1
       /\ lastProc.audit[1].action = lastProc.type
       /\ lastProc.audit[1].success = lastProc.ret

\* C23: the audit log never holds more than 1000 entries; its entries are
\* consecutive records in the order they were made, the newest being the
\* record made last, so entries are only appended and only the oldest are
\* evicted; once entries have been evicted at least the 500 most recent
\* remain; and no stored summary is longer than 500 characters.
C23_BoundedAuditLog ==
    /\ Len(auditLog) <= AUDIT_MAX
    /\ \A i \in 1..Len(auditLog) :
          /\ auditLog[i].result_summary <= SUMMARY_MAX
          /\ auditLog[i].timestamp = clock - 1 - (Len(auditLog) - i)
    /\ (auditLog # <<>> /\ auditLog[1].timestamp > 0) => Len(auditLog) >= AUDIT_KEEP

\* The record that pushed the log past 1000 entries has just been made:
\* the 500 most recent entries remain, a truncated summary among them.
C23_Witness ==
    /\ Len(auditLog) = AUDIT_KEEP
    /\ auditLog[1].timestamp = AUDIT_MAX + 1 - AUDIT_KEEP
    /\ auditLog[AUDIT_KEEP].timestamp = AUDIT_MAX
    /\ \E i \in 1..AUDIT_KEEP : auditLog[i].result_summary = SUMMARY_MAX

\* C24: the step in which the ActionRunner handles a listed file, raising
\* or not, takes that one file off the list and leaves the others to be
\* handled; the step in which plan or approval creation raises takes no
\* other task file off the list of the pass, and the handler goes back to
\* the loop with that list; the periodic loop never stops.
C24_IterationContinues ==
    [][/\ (queue # {} /\ queue' # queue)
            => /\ lastProc'.path \in queue
               /\ queue' = queue \ {lastProc'.path}
       /\ \A p \in Producers :
            /\ (pc[p] # "raised" /\ pc'[p] = "raised")
                  => todo[p] \ {cur'[p]} \subseteq todo'[p]
            /\ (pc[p] = "raised" /\ pc'[p] # "raised")
                  => /\ pc'[p] = "loop"
                     /\ todo'[p] = todo[p]
       /\ pc'["periodic"] # "idle"]_vars

\* process_approved_file has raised on a listed file while another listed
\* file is still to be handled, and plan creation has raised on a task file
\* while another task file of the same pass is still to be handled.
C24_Witness ==
    /\ lastProc.outcome = "raised"
    /\ queue # {}
    /\ pc["periodic"] = "raised"
    /\ todo["periodic"] # {}

\* C25: graceful shutdown never ends a loop by force in the middle of a
\* relocation: a loop that has not exited within the bounded join is logged,
\* and no thread is killed at a position where the copy of a relocation is
\* written and its source not yet removed.
C25_NeverKilledMidRelocation ==
    \A t \in ThreadNames : shut.killed[t] # "relocating"

\* C26: the directory watcher calls its callback only for created and moved
\* events on non-directory paths outside Plans, Pending_Approval and Done
\* that exist with a non-zero size after the grace sleep; a modified or a
\* deleted event never reaches the callback.
C26_OnlyCreatedAndMovedForwarded ==
    /\ \A i \in 1..Len(watch.calls) :
          /\ watch.calls[i].type \in {"created", "moved"}
          /\ ~watch.calls[i].is_directory
          /\ watch.calls[i].part \notin {"Plans", "Pending_Approval", "Done"}
          /\ watch.calls[i].exists
          /\ watch.calls[i].size > 0
    /\ (watch.pc = "idle" /\ watch.event.type \in {"modified", "deleted"})
          => watch.outcome = "ignored"

C26_Witness ==
    /\ Len(watch.calls) = 1
    /\ watch.calls[1].type = "moved"
    /\ watch.calls[1].part = "Needs_Action"
    /\ watch.event.type = "modified"
    /\ ~watch.event.is_directory
    /\ watch.event.part = "Needs_Action"
    /\ watch.outcome = "ignored"
    /\ inbox.exists
    /\ inbox.size > 0

\* C27: a bad event does not end the watcher: when the path of an event
\* disappears while the handler checks it, the handler logs and skips the
\* event, raises nothing, and later events are still dispatched.
C27_BadEventSkipped ==
    /\ watch.outcome # "raised"
    /\ watch.alive

\* C28: Task_A.md and Task_A_copy.md share the dedup key Task_A: while the
\* 'created' event of Task_A_copy.md is pending and a plan PLAN_..._Task_A.md
\* is in Plans, the dedup check of the event handler finds a plan, so that
\* the second item is skipped as a duplicate.
C28_CopySharesKey ==
    (/\ TaskName(StemACopy) \in events
     /\ Exists(vault, "Needs_Action", TaskName(StemACopy))
     /\ \E f \in vault["Plans"] : f.name.kind = "PLAN" /\ f.name.stem = StemA)
    => existing_plans(vault, TaskName(StemACopy).stem) # {}

\* C29: argument normalization renames a synonym to its canonical key only if
\* the canonical key is absent: an explicit canonical value is never
\* overwritten, every other key keeps its value, a renamed key carries its
\* value to the canonical key, and normalizing twice equals normalizing once.
C29_NormalizationKeepsExplicitValues ==
    norm.pc \in {"once", "twice"} =>
       /\ \A k \in DOMAIN norm.arguments \ Synonyms :
             k \in DOMAIN norm.once /\ norm.once[k] = norm.arguments[k]
       /\ \A k \in DOMAIN norm.arguments \cap DOMAIN norm.once :
             norm.once[k] = norm.arguments[k]
       /\ \A k \in DOMAIN norm.arguments \ DOMAIN norm.once :
             /\ k \in Synonyms
             /\ Canonical(k) \notin DOMAIN norm.arguments
             /\ Canonical(k) \in DOMAIN norm.once
       /\ \A c \in DOMAIN norm.once \ DOMAIN norm.arguments :
             \E k \in DOMAIN norm.arguments \ DOMAIN norm.once :
                Canonical(k) = c /\ norm.once[c] = norm.arguments[k]
       /\ Cardinality(DOMAIN norm.once) = Cardinality(DOMAIN norm.arguments)
       /\ DOMAIN norm.once = MapArguments(DOMAIN norm.arguments, 1)
       /\ norm.pc = "twice" => norm.twice = norm.once

C29_Witness ==
    /\ norm.pc = "twice"
    /\ DOMAIN norm.arguments = {"customer", "client_name", "cost", "memo"}
    /\ norm.arguments["customer"] = "u"
    /\ norm.arguments["client_name"] = "v"
    /\ DOMAIN norm.once = {"customer", "client_name", "amount", "description"}
    /\ norm.once["client_name"] = "v"
    /\ norm.once["amount"] = norm.arguments["cost"]

\* C30: for an action file made of a header block, a blank line and free
\* text, parse_action_file yields the type, the recipient and the subject of
\* the header and a body equal to all of the free text after the first blank
\* line, and the file is dispatched to the message-send path and no other.
C30_HeaderFieldsAndBody ==
    (parse.pc = "done" /\ StripLines(parse.free) # <<>>) =>
       /\ parse.action_data.kind = "map"
       /\ Get(parse.action_data.map, "type", "") = "email_send"
       /\ Get(parse.action_data.map, "to", "") = "a@example.com"
       /\ Get(parse.action_data.map, "subject", "") = "Hi"
       /\ "body" \in DOMAIN parse.action_data.map
       /\ Get(parse.action_data.map, "body", <<>>) = StripLines(parse.free)
       /\ parse.collab \in {"gmail", "none"}

\* The lines of a parsed file that name a field the body capture stops at.
KnownFieldAt(i) ==
    parse.free[i].k \in {"type", "to", "subject", "body", "from", "cc", "bcc"}

\* The last body: line of the parsed file, and the first known field after it.
LastBodyLine ==
    CHOOSE i \in 1..Len(parse.free) :
       /\ parse.free[i].k = "body"
       /\ \A j \in (i + 1)..Len(parse.free) : parse.free[j].k # "body"

CaptureEnd ==
    IF \E j \in (LastBodyLine + 1)..Len(parse.free) : KnownFieldAt(j)
    THEN CHOOSE j \in (LastBodyLine + 1)..Len(parse.free) :
            KnownFieldAt(j) /\ \A m \in (LastBodyLine + 1)..(j - 1) : ~KnownFieldAt(m)
    ELSE Len(parse.free) + 1

\* The file reached the line-oriented grammar: it holds no blank line and
\* does not load as YAML.
InLineGrammar ==
    /\ parse.pc = "parsed"
    /\ \A i \in 1..Len(parse.free) : ~IsBlank(parse.free[i])
    /\ \E i \in 1..Len(parse.free) : IsText(parse.free[i])
    /\ \E i \in 1..Len(parse.free) : KnownFieldAt(i)

C32_BlankLinesStayInBody ==
    (/\ parse.pc = "parsed"
     /\ \E i \in 1..Len(parse.free) : parse.free[i].k = "body"
     /\ \A i \in 1..(LastBodyLine - 1) : ~IsBlank(parse.free[i]) /\ parse.free[i].k # "body"
     /\ \E i \in (LastBodyLine + 1)..Len(parse.free) : IsBlank(parse.free[i])
     /\ ~IsBlank(parse.free[Len(parse.free)])
     /\ CaptureEnd = Len(parse.free) + 1)
    => /\ parse.action_data.kind = "map"
       /\ "body" \in DOMAIN parse.action_data.map
       /\ parse.action_data.map["body"] =
             <<T(parse.free[LastBodyLine].v)>>
                \o SubSeq(parse.free, LastBodyLine + 1, Len(parse.free))

\* The Tool Arguments block of the executed file is there and is malformed:
\* its mapping is cut short, or stands on the line of the heading.
MalformedBlock ==
    \E i \in 1..Len(parse.free) :
       /\ parse.free[i].k = "Tool Arguments"
       /\ \/ parse.free[i].v # ""
          \/ i < Len(parse.free) /\ parse.free[i + 1].v = ArgsMalformed

\* C33: a tool-call file whose Tool Arguments block is malformed fails and no
\* tool method is invoked: the tool is never called with arguments other
\* than the complete mapping written in the file.
C33_MalformedArgumentsFail ==
    (parse.pc = "called" /\ MalformedBlock) => (~parse.ret /\ parse.collab = "none")

\* C34: an action that lacks a parameter its type requires (a message-send
\* action without recipient or subject, a tool call without tool name or
\* operation name) is rejected with a failure result, not an exception, and
\* its collaborator is never invoked.
C34_MissingParameterRejected ==
    /\ (/\ parse.pc = "parsed"
        /\ parse.action_data.kind = "map"
        /\ Get(parse.action_data.map, "type", "") = "email_send"
        /\ (Get(parse.action_data.map, "to", "") = ""
               \/ Get(parse.action_data.map, "subject", "") = ""))
       => (parse.outcome = "executed" /\ ~parse.ret /\ parse.collab = "none")
    /\ (/\ parse.pc = "called"
        /\ parse.action_data.kind = "map"
        /\ \/ \A i \in 1..Len(parse.free) : (parse.free[i].k # "tool")
           \/ \A j \in 1..Len(parse.free) : (parse.free[j].k # "action"))
       => (parse.outcome = "executed" /\ ~parse.ret /\ parse.collab = "none"
             /\ parse.events = <<>>)

C34_Witness ==
    /\ parse.pc = "parsed"
    /\ parse.free = <<F("type", "email_send"), F("subject", "Hi"), T("second")>>
    /\ parse.action_data.kind = "map"
    /\ "to" \notin DOMAIN parse.action_data.map
    /\ parse.outcome = "executed"
    /\ ~parse.ret

\* ---------------------------------------------------------------------------
\* SocialMediaSkill: drafts in Pending_Approval, execution of an approved post
\* ---------------------------------------------------------------------------

\* A path is a directory, as the list of its parts, and a file name.
approved_dir == <<"vault", "Approved">>

pending_approval_dir == <<"vault", "Pending_Approval">>

\* The same directory as pending_approval_dir, spelled through Approved.
PendingThroughApproved == <<"vault", "Approved", "..", "Pending_Approval">>

GivenDirs == {approved_dir, pending_approval_dir, PendingThroughApproved}

SocialPlatforms == {"facebook", "twitter"}

\* f"DRAFT_SOCIAL_{platform.upper()}_{timestamp}.md", within one second.
DraftName(platform) ==
    Name("DRAFT_SOCIAL", 0,
         <<CASE platform = "facebook" -> "FACEBOOK"
             [] platform = "twitter" -> "TWITTER"
             [] OTHER -> "INSTAGRAM">>)

\* _generate_approval_markdown: the text of the draft.
DraftContent(platform) ==
    IF platform = "facebook" THEN "draft_facebook" ELSE "draft_twitter"

DraftNames == {DraftName(p) : p \in SocialPlatforms \cup {"instagram"}}

GivenPaths == [dir : GivenDirs, name : DraftNames]

max_length(platform) ==
    CASE platform = "facebook" -> 63206
      [] platform = "twitter" -> 280
      [] OTHER -> 2200

\* len(message): at and just over each platform's limit.
MessageLens == {280, 281, 63206, 63207}

\* The directory a list of parts names, '..' stepping to the parent.
RECURSIVE Resolve(_)
Resolve(dir) ==
    IF dir = <<>> THEN <<>>
    ELSE LET last == dir[Len(dir)]
             front == Resolve(SubSeq(dir, 1, Len(dir) - 1))
         IN  IF last = ".."
             THEN SubSeq(front, 1, Len(front) - 1)
             ELSE Append(front, last)

\* The directory of the vault a path leads to.
DirAt(path) == LET d == Resolve(path.dir) IN d[Len(d)]

\* str(a) in str(b) for two lists of path parts.
PartsIn(a, b) ==
    \E i \in 0..(Len(b) - Len(a)) : SubSeq(b, i + 1, i + Len(a)) = a

\* The HITL check as written: str(self.approved_dir) in str(file_path).
PathNamesApproved(path) == PartsIn(approved_dir, path.dir)

\* _parse_approved_content: the platform, from the lower-cased file name.
PlatformOf(name) ==
    CASE name.stem = <<"FACEBOOK">> -> "facebook"
      [] name.stem = <<"TWITTER">> -> "twitter"
      [] OTHER -> "none"

\* self.platforms[platform]['mcp_tool']
McpToolOf(platform) ==
    CASE platform = "facebook" -> "post_to_facebook"
      [] platform = "twitter" -> "post_to_twitter"
      [] OTHER -> "none"

\* _execute_via_mcp: what the tool call gives back.
ToolResults == {"success", "failure", "raised"}

MaxCalls == 2

InitSocial ==
    /\ InitLoops
    /\ InitPollVars
    /\ vault = EmptyVault

\* post_to_facebook / post_to_twitter: a text over the limit gives an error and
\* no file; any other text gives a draft in Pending_Approval. No tool is called.
post_to_platform(platform, len) ==
    /\ social' = [social EXCEPT
         !.ret = IF len > max_length(platform) THEN "failure" ELSE "success"]
    /\ vault' =
         IF len > max_length(platform) THEN vault
         ELSE WriteFile(vault, "Pending_Approval", DraftName(platform),
                        DraftContent(platform))
    /\ UNCHANGED <<clock, events, pc, todo, cur, queue, dispatched, redispatched,
                   planWrites, lastProc, fellBack, odooVars, pollVars, reloc, shut,
                   watch, norm, parse>>

\* The human writes a draft for a platform the skill writes none for.
HumanDrafts ==
    /\ ~Exists(vault, "Pending_Approval", DraftName("instagram"))
    /\ vault' = WriteFile(vault, "Pending_Approval", DraftName("instagram"),
                          DraftContent("instagram"))
    /\ UNCHANGED <<clock, events, pc, todo, cur, queue, dispatched, redispatched,
                   planWrites, lastProc, fellBack, odooVars, pollVars, reloc, shut,
                   watch, norm, parse, social>>

\* execute_approved_post(approval_file_path, mcp_client): the failures before
\* the tool call, then the call, the audit entry and the archive (which unlinks
\* the original).
execute_approved_post(path, result) ==
    /\ Len(social.calls) < MaxCalls
    /\ LET called == /\ Exists(vault, DirAt(path), path.name)
                     /\ PathNamesApproved(path)
                     /\ PlatformOf(path.name) # "none"
       IN  /\ social' =
                IF ~called
                THEN [social EXCEPT !.given = path, !.ret = "failure"]
                ELSE [social EXCEPT
                        !.given = path,
                        !.calls = Append(@, [tool |-> McpToolOf(PlatformOf(path.name)),
                                             dir |-> DirAt(path),
                                             name |-> path.name]),
                        !.audits = @ + 1,
                        !.archived = @ \cup {path.name},
                        !.ret = IF result = "success" THEN "success" ELSE "failure"]
           /\ vault' = IF called THEN RemoveFile(vault, DirAt(path), path.name)
                       ELSE vault
    /\ UNCHANGED <<clock, events, pc, todo, cur, queue, dispatched, redispatched,
                   planWrites, lastProc, fellBack, odooVars, pollVars, reloc, shut,
                   watch, norm, parse>>

SocialNext ==
    \/ \E p \in SocialPlatforms, n \in MessageLens : post_to_platform(p, n)
    \/ HumanDrafts
    \/ \E f \in vault["Pending_Approval"] : HumanApprove(f)
    \/ \E path \in GivenPaths, r \in ToolResults : execute_approved_post(path, r)

SpecSocial == InitSocial /\ [][SocialNext]_vars

\* C35: SocialMediaSkill calls a posting tool only for a file in the Approved
\* directory: post_to_facebook and post_to_twitter call none, and every call
\* execute_approved_post has made was made for a file that was in Approved.
C35_ToolOnlyForApprovedFile ==
    \A i \in 1..Len(social.calls) : social.calls[i].dir = "Approved"

\* ---------------------------------------------------------------------------
\* An approved draft of a post under the ActionRunner loop
\* ---------------------------------------------------------------------------
RunnerRuns == RunnerScan \/ \E path \in queue : RunnerProcess(path)

DraftNext ==
    \/ \E p \in SocialPlatforms, n \in MessageLens : post_to_platform(p, n)
    \/ \E f \in vault["Pending_Approval"] : HumanApprove(f)
    \/ RunnerScan
    \/ \E path \in queue : RunnerProcess(path)

\* run(): while self.running, run_once() and sleep -- the loop keeps taking its
\* steps for as long as it has one to take.
SpecDraft == InitSocial /\ [][DraftNext]_vars /\ WF_vars(RunnerRuns)

\* C36: a draft of a post that the human has moved to Approved is eventually
\* executed by the ActionRunner through a posting tool.
C36_ApprovedDraftEventuallyPosted ==
    \A p \in SocialPlatforms :
        Exists(vault, "Approved", DraftName(p)) ~> (DraftName(p) \in dispatched)

\* C37: no call of create_invoice creates an invoice in Odoo unless a human
\* approval for that invoice was granted first: a call that reached Odoo, over
\* either channel, had asked for the approval and had got it.
C37_NoInvoiceWithoutApproval ==
    (/\ lastCall.op = "create_invoice"
     /\ Range(lastCall.events) \cap {"mcp_call", "direct_call"} # {})
        => (lastCall.require_approval /\ lastCall.approval = "approved")

\* ---------------------------------------------------------------------------
\* The periodic plan-generation loop alone, with no write that raises
\* ---------------------------------------------------------------------------
CycleStep ==
    \/ Scan("periodic")
    \/ WritePlanWith("periodic", {"ok"})
    \/ WriteApprovalWith("periodic", {"ok"})
    \/ MoveTask("periodic")
    \/ Finish("periodic")

CycleNext ==
    \/ Tick
    \/ \E stem \in Stems : TaskArrives(stem)
    \/ Scan("periodic")
    \/ WritePlanWith("periodic", {"ok"})
    \/ WriteApprovalWith("periodic", {"ok"})
    \/ MoveTask("periodic")
    \/ Finish("periodic")

\* run_plan_generation_monitor: while self.running, run_once() and sleep -- the
\* loop keeps taking its steps.
SpecCycle == Init /\ [][CycleNext]_vars /\ WF_vars(CycleStep)

\* C38: every task file placed in Needs_Action is eventually relocated out of
\* Needs_Action to Done by the plan-generation loop, whatever Done held before.
C38_TaskEventuallyDone ==
    \A stem \in Stems :
        Exists(vault, "Needs_Action", TaskName(stem))
            ~> ~Exists(vault, "Needs_Action", TaskName(stem))

\* The channel call of the last operation came back with an error result or
\* raised.
ChannelFailed ==
    \/ "mcp_error" \in Range(lastCall.events)
    \/ "direct_call" \in Range(lastCall.events) /\ lastCall.error = "exception"

\* C39: a reported success is a real success: an operation of the skill whose
\* channel call returned an error result or raised returns success=False and
\* its audit entry carries success=false.
C39_ReportedSuccessIsReal ==
    (lastCall.op \in OdooMethods /\ ChannelFailed)
        => /\ ~lastCall.ok
           /\ auditLog # <<>>
           /\ ~auditLog[Len(auditLog)].success

\* C40: if the watched file exists throughout and its size stops changing from
\* some point on, wait_for_file_stability eventually returns True.
C40_SettledFileReturnsTrue ==
    ([]inbox.exists /\ <>[][inbox'.size = inbox.size]_inbox)
        => <>(stab.result = "true")

\* The detector has returned True for a file that was there throughout and
\* whose size had changed under it, one observation differing from the size
\* it had started from, before it settled.
C40_Witness ==
    /\ stab.result = "true"
    /\ inbox.exists
    /\ inbox.size = 1
    /\ stab.initial_size = 1
    /\ stab.last = 1

====
